---- MODULE Spec2Model ----
(***************************************************************************)
(* Tenant manager of picoclaw: the tenant lifecycle service               *)
(* (pkg/manager/tenant), its PostgreSQL store and the cluster applier     *)
(* (pkg/manager/k8s).  Every request runs as its own call chain; the      *)
(* points where two requests can interleave are the calls to the store    *)
(* and to the cluster, so each action below is one such call together     *)
(* with the local computation that precedes the next one.                 *)
(*                                                                         *)
(* Strings whose characters matter (tenant IDs, namespaces) are sequences *)
(* of one-character strings; the others are TLA+ strings.                 *)
(***************************************************************************)
EXTENDS Integers, Sequences, FiniteSets, TLC

\* Number of requests that can be in flight at the same time.
NumProcs == 2

Procs == 1..NumProcs

\* Go's nil: for an error, and for a map or a pointer that is not there.
Nil == "nil"
NilMap == [nil |-> TRUE]
NilResources == [nil |-> TRUE]
NoTenant == [nil |-> TRUE]

Rep(c, n) == [i \in 1..n |-> c]

(***************************************************************************)
(* Tenant IDs and their validation (service.go)                            *)
(***************************************************************************)
LowerAlnum ==
    {"a","b","c","d","e","f","g","h","i","j","k","l","m","n","o","p","q","r",
     "s","t","u","v","w","x","y","z","0","1","2","3","4","5","6","7","8","9"}

\* Longest run the middle group of dnsNameRegex accepts: {0,61}.
RegexMiddleMax == 61

\* dnsNameRegex.MatchString: ^[a-z0-9]([a-z0-9\-]{0,61}[a-z0-9])?$
dnsNameRegex(s) ==
    /\ Len(s) >= 1
    /\ s[1] \in LowerAlnum
    /\ \/ Len(s) = 1
       \/ /\ Len(s) - 2 <= RegexMiddleMax
          /\ s[Len(s)] \in LowerAlnum
          /\ \A i \in 2..(Len(s) - 1) : s[i] \in LowerAlnum \cup {"-"}

\* 63 - len("picoclaw-tenant-")
MaxTenantIDLen == 53

ErrTenantIDRequired == "tenant_id is required"
ErrTenantIDTooLong == "tenant_id too long (max 53 characters)"
ErrTenantIDNotDNS == "tenant_id must be a valid DNS subdomain"
ErrDisplayNameRequired == "display_name is required"
ErrCheckExisting == "check existing"
ErrAlreadyExists == "tenant already exists"
ErrRender == "render templates"
ErrApply == "apply manifests"
ErrStoreTenant == "store tenant"
ErrStoreGet == "get tenant"
ErrStoreList == "list tenants"
ErrNotFound == "tenant not found"
ErrStoreUpdate == "store update"
ErrDeleteNamespace == "delete namespace"
ErrStoreDelete == "delete tenant"
ErrRestartAgent == "restart agent"
ErrRestartGateway == "restart gateway"

\* The IDs validateTenantID lets through no matter how long: the length
\* test dropped.
validateTenantIDNoLength(id) ==
    IF id = <<>> THEN ErrTenantIDRequired
    ELSE IF ~dnsNameRegex(id) THEN ErrTenantIDNotDNS
    ELSE Nil

\* The length test is off by one: an ID of 53 characters is too long.
validateTenantIDOffByOne(id) ==
    IF id = <<>> THEN ErrTenantIDRequired
    ELSE IF Len(id) >= MaxTenantIDLen THEN ErrTenantIDTooLong
    ELSE IF ~dnsNameRegex(id) THEN ErrTenantIDNotDNS
    ELSE Nil

validateTenantID(id) ==
    IF id = <<>> THEN ErrTenantIDRequired
    ELSE IF Len(id) > MaxTenantIDLen THEN ErrTenantIDTooLong
    ELSE IF ~dnsNameRegex(id) THEN ErrTenantIDNotDNS
    ELSE Nil

NamespacePrefix ==
    <<"p","i","c","o","c","l","a","w","-","t","e","n","a","n","t","-">>

(***************************************************************************)
(* Resources and the configuration document (types.go, service.go)        *)
(***************************************************************************)
ResourceFields ==
    {"AgentCPU", "AgentMemory", "GatewayCPU", "GatewayMemory", "WorkspaceSize"}

DefaultResources ==
    [AgentCPU |-> "500m", AgentMemory |-> "1Gi", GatewayCPU |-> "250m",
     GatewayMemory |-> "512Mi", WorkspaceSize |-> "500Mi"]

\* GatewayMemory is taken from the override's GatewayCPU.
mergeResourcesSwapped(base, override) ==
    LET b1 == IF override.AgentCPU # ""
              THEN [base EXCEPT !.AgentCPU = override.AgentCPU] ELSE base
        b2 == IF override.AgentMemory # ""
              THEN [b1 EXCEPT !.AgentMemory = override.AgentMemory] ELSE b1
        b3 == IF override.GatewayCPU # ""
              THEN [b2 EXCEPT !.GatewayCPU = override.GatewayCPU] ELSE b2
        b4 == IF override.GatewayCPU # ""
              THEN [b3 EXCEPT !.GatewayMemory = override.GatewayCPU] ELSE b3
        b5 == IF override.WorkspaceSize # ""
              THEN [b4 EXCEPT !.WorkspaceSize = override.WorkspaceSize] ELSE b4
    IN  b5

\* The override replaces the base whole.
mergeResourcesReplace(base, override) == override

mergeResources(base, override) ==
    LET b1 == IF override.AgentCPU # ""
              THEN [base EXCEPT !.AgentCPU = override.AgentCPU] ELSE base
        b2 == IF override.AgentMemory # ""
              THEN [b1 EXCEPT !.AgentMemory = override.AgentMemory] ELSE b1
        b3 == IF override.GatewayCPU # ""
              THEN [b2 EXCEPT !.GatewayCPU = override.GatewayCPU] ELSE b2
        b4 == IF override.GatewayMemory # ""
              THEN [b3 EXCEPT !.GatewayMemory = override.GatewayMemory] ELSE b3
        b5 == IF override.WorkspaceSize # ""
              THEN [b4 EXCEPT !.WorkspaceSize = override.WorkspaceSize] ELSE b4
    IN  b5

GatewayHost == "0.0.0.0"
GatewayPort == 18790

\* A JSON object is a function from its keys to its values.  Put(m, k, v)
\* is the Go assignment m[k] = v.
Put(m, k, v) ==
    [x \in DOMAIN m \cup {k} |-> IF x = k THEN v ELSE m[x]]

\* A serialized document: the object it encodes and the layout of its text.
\* json.MarshalIndent writes the indented layout; a JSONB column returns
\* PostgreSQL's own layout of the same object.
MarshalIndent(m) == [doc |-> m, layout |-> "indent"]

Unmarshal(raw) == raw.doc

ToJSONB(raw) == [doc |-> raw.doc, layout |-> "jsonb"]

\* A key that is not supplied is written as null.
buildConfigJSONNulls(providers, agents, channels) ==
    LET null == [null |-> TRUE]
        c0 == [k \in {"gateway"} |-> [host |-> GatewayHost, port |-> GatewayPort]]
        c1 == Put(c0, "providers", IF providers # NilMap THEN providers ELSE null)
        c2 == Put(c1, "agents", IF agents # NilMap THEN agents ELSE null)
        c3 == Put(c2, "channels", IF channels # NilMap THEN channels ELSE null)
    IN  MarshalIndent(c3)

buildConfigJSON(providers, agents, channels) ==
    LET c0 == [k \in {"gateway"} |-> [host |-> GatewayHost, port |-> GatewayPort]]
        c1 == IF providers # NilMap THEN Put(c0, "providers", providers) ELSE c0
        c2 == IF agents # NilMap THEN Put(c1, "agents", agents) ELSE c1
        c3 == IF channels # NilMap THEN Put(c2, "channels", channels) ELSE c2
    IN  MarshalIndent(c3)

\* json.Marshal(t.Resources): the struct's json tags name the keys.
MarshalResources(r) ==
    [agent_cpu |-> r.AgentCPU, agent_memory |-> r.AgentMemory,
     gateway_cpu |-> r.GatewayCPU, gateway_memory |-> r.GatewayMemory,
     workspace_size |-> r.WorkspaceSize]

UnmarshalResources(j) ==
    [AgentCPU |-> j.agent_cpu, AgentMemory |-> j.agent_memory,
     GatewayCPU |-> j.gateway_cpu, GatewayMemory |-> j.gateway_memory,
     WorkspaceSize |-> j.workspace_size]

\* Tenant.ToVars: what the templates are rendered from.  The image, the
\* replica count and the labels are the same for every render of a tenant.
ToVars(t) ==
    [TenantID |-> t.ID, Namespace |-> t.Namespace, ConfigJSON |-> t.ConfigJSON,
     Resources |-> t.Resources]


(***************************************************************************)
(* Renderer (templates/renderer.go)                                       *)
(***************************************************************************)
templateNames ==
    <<"namespace.yaml.tmpl", "configmap.yaml.tmpl", "pvc.yaml.tmpl",
      "rbac.yaml.tmpl", "agent-deployment.yaml.tmpl",
      "gateway-deployment.yaml.tmpl", "gateway-service.yaml.tmpl">>

AgentDeployment == "picoclaw-agent"
GatewayDeployment == "picoclaw-gateway"

\* The document one template renders to.  The template files are not part
\* of the Go sources; their kinds and names follow the manifest order the
\* specification gives.  A cluster-scoped document has namespace <<>>.
ExecuteTemplate(name, vars) ==
    LET ns == vars.Namespace
        d(kind, namespace, nm) ==
            [kind |-> kind, namespace |-> namespace, name |-> nm, body |-> vars]
    IN  CASE name = "namespace.yaml.tmpl" -> d("Namespace", <<>>, "")
          [] name = "configmap.yaml.tmpl" -> d("ConfigMap", ns, "picoclaw-config")
          [] name = "pvc.yaml.tmpl" -> d("PersistentVolumeClaim", ns, "picoclaw-workspace")
          [] name = "rbac.yaml.tmpl" -> d("RoleBinding", ns, "picoclaw")
          [] name = "agent-deployment.yaml.tmpl" -> d("Deployment", ns, AgentDeployment)
          [] name = "gateway-deployment.yaml.tmpl" -> d("Deployment", ns, GatewayDeployment)
          [] name = "gateway-service.yaml.tmpl" -> d("Service", ns, GatewayDeployment)

\* RenderAll: the templates in the order of templateNames.  The "---" lines
\* it writes between them are what the reader of the stream splits on.
RenderAll(vars) ==
    [i \in 1..Len(templateNames) |-> ExecuteTemplate(templateNames[i], vars)]

(***************************************************************************)
(* Cluster applier (k8s/applier.go)                                       *)
(*                                                                         *)
(* The cluster maps each existing namespace to the namespace object's     *)
(* body and to the objects in it, keyed by <<kind, name>>.                *)
(***************************************************************************)
NoObjects == [k \in {} |-> Nil]

\* A manifest stream is the sequence of the documents the YAML reader splits
\* it into.  A document that declares no kind has kind ""; one that is
\* nothing but white space, or nothing but a "---" line, has that text for
\* its body.
EmptyDocument ==
    [kind |-> "", namespace |-> <<>>, name |-> "", body |-> [text |-> ""]]
BareSeparator ==
    [kind |-> "", namespace |-> <<>>, name |-> "", body |-> [text |-> "---"]]

\* Lines 126-129: the documents the reading loop passes over.
IsBlank(d) == d.body = [text |-> ""] \/ d.body = [text |-> "---"]

\* The loop ends at the first blank document.
parseYAMLDocumentsStopAtBlank(stream) ==
    LET blanks == {i \in 1..Len(stream) : IsBlank(stream[i])}
        stop == IF blanks = {} THEN Len(stream) + 1
                ELSE CHOOSE i \in blanks : \A j \in blanks : i <= j
    IN  SelectSeq(SubSeq(stream, 1, stop - 1), LAMBDA d : d.kind # "")

\* Documents that survive parsing: those that are not blank and declare a
\* kind.
parseYAMLDocuments(stream) ==
    SelectSeq(stream, LAMBDA d : ~IsBlank(d) /\ d.kind # "")

\* The kinds the cluster's discovery has a REST mapping for.
ServedKinds ==
    {"Namespace", "ConfigMap", "PersistentVolumeClaim", "RoleBinding",
     "Deployment", "Service"}

ErrMapping == "find REST mapping"
ErrPatch == "apply"

\* The namespace a Namespace document creates: metadata.name.
NamespaceOf(obj) ==
    IF obj.kind = "Namespace" THEN obj.body.Namespace ELSE obj.namespace

\* The server accepts the patch: a namespaced object needs its namespace.
CanPatch(cl, obj) == obj.kind = "Namespace" \/ obj.namespace \in DOMAIN cl

\* An object that exists is left as it is: created, never updated.
PatchCreateOnly(cl, obj) ==
    LET ns == NamespaceOf(obj)
    IN  IF obj.kind = "Namespace"
        THEN IF ns \in DOMAIN cl THEN cl
             ELSE Put(cl, ns, [self |-> obj.body, objects |-> NoObjects])
        ELSE IF <<obj.kind, obj.name>> \in DOMAIN cl[ns].objects THEN cl
             ELSE [cl EXCEPT ![ns].objects = Put(@, <<obj.kind, obj.name>>, obj.body)]

\* Server-side apply of one object: created, or set to the document.
Patch(cl, obj) ==
    LET ns == NamespaceOf(obj)
    IN  IF obj.kind = "Namespace"
        THEN Put(cl, ns, [self |-> obj.body,
                          objects |-> IF ns \in DOMAIN cl THEN cl[ns].objects
                                      ELSE NoObjects])
        ELSE [cl EXCEPT ![ns].objects = Put(@, <<obj.kind, obj.name>>, obj.body)]

\* What Apply yields: the cluster, whether Apply succeeded and with which
\* error, the number of patches the cluster accepted, and the objects whose
\* patch was sent, in the order of sending.
Applied(cl, err, patched, sent) ==
    [cluster |-> cl, ok |-> err = Nil, err |-> err, patched |-> patched,
     sent |-> sent]

\* A refused document is passed over and the loop goes on; the error comes
\* at the end.
RECURSIVE ApplyFromContinue(_, _, _, _, _)
ApplyFromContinue(cl, objects, i, failAt, sent) ==
    IF i > Len(objects)
    THEN Applied(cl, IF failAt \in 1..Len(objects) THEN ErrPatch ELSE Nil,
                 i - 1, sent)
    ELSE IF objects[i].kind \notin ServedKinds
         THEN Applied(cl, ErrMapping, i - 1, sent)
    ELSE IF i = failAt \/ ~CanPatch(cl, objects[i])
         THEN ApplyFromContinue(cl, objects, i + 1, failAt, Append(sent, objects[i]))
         ELSE ApplyFromContinue(Patch(cl, objects[i]), objects, i + 1, failAt,
                                Append(sent, objects[i]))

\* Lines 42-68: the loop of Apply from object i on.  The mapping of a kind
\* that is not served fails before any patch of the object is sent; failAt
\* is the object whose patch the cluster refuses for a reason of its own
\* (0: none).
RECURSIVE ApplyFrom(_, _, _, _, _)
ApplyFrom(cl, objects, i, failAt, sent) ==
    IF i > Len(objects) THEN Applied(cl, Nil, i - 1, sent)
    ELSE IF objects[i].kind \notin ServedKinds
         THEN Applied(cl, ErrMapping, i - 1, sent)
    ELSE IF i = failAt \/ ~CanPatch(cl, objects[i])
         THEN Applied(cl, ErrPatch, i - 1, Append(sent, objects[i]))
         ELSE ApplyFrom(Patch(cl, objects[i]), objects, i + 1, failAt,
                        Append(sent, objects[i]))

\* Namespace documents are applied before all others.
ApplyNamespacesFirst(cl, manifests, failAt) ==
    LET objects == parseYAMLDocuments(manifests)
    IN  ApplyFrom(cl, SelectSeq(objects, LAMBDA d : d.kind = "Namespace")
                        \o SelectSeq(objects, LAMBDA d : d.kind # "Namespace"),
                  1, failAt, <<>>)

Apply(cl, manifests, failAt) ==
    ApplyFrom(cl, parseYAMLDocuments(manifests), 1, failAt, <<>>)

\* DeleteNamespace: the namespace goes with everything in it.
RemoveNamespace(cl, ns) == [n \in DOMAIN cl \ {ns} |-> cl[n]]

(***************************************************************************)
(* Store (tenant/store.go): the tenants table, keyed by id                *)
(***************************************************************************)
\* The row INSERT writes for t.
RowOf(t) ==
    [id |-> t.ID, display_name |-> t.DisplayName, namespace |-> t.Namespace,
     config_json |-> ToJSONB(t.ConfigJSON),
     resources |-> MarshalResources(t.Resources), status |-> t.Status]

\* The Tenant that Scan fills from a row.
TenantOf(row) ==
    [ID |-> row.id, DisplayName |-> row.display_name, Namespace |-> row.namespace,
     ConfigJSON |-> row.config_json,
     Resources |-> UnmarshalResources(row.resources), Status |-> row.status]

\* Store.Get: the tenant with the id, or nil.
storeGet(st, id) == IF id \in DOMAIN st THEN TenantOf(st[id]) ELSE NoTenant

\* Store.List: the tenants of all rows.  The rows come ordered by their
\* creation time, which the table here does not keep: the list is a set.
storeList(st) == {TenantOf(st[id]) : id \in DOMAIN st}

\* The table has no key: an insert is never refused.
CanInsertAlways(st, t) == TRUE

\* PRIMARY KEY (id) and UNIQUE (namespace).
CanInsert(st, t) ==
    /\ t.ID \notin DOMAIN st
    /\ \A id \in DOMAIN st : st[id].namespace # t.Namespace

\* The columns UPDATE sets.
UpdatedRow(row, t) ==
    [row EXCEPT !.display_name = t.DisplayName,
                !.config_json = ToJSONB(t.ConfigJSON),
                !.resources = MarshalResources(t.Resources),
                !.status = t.Status]


(***************************************************************************)
(* State                                                                   *)
(***************************************************************************)
VARIABLES
    store,      \* the tenants table: id -> row
    cluster,    \* namespace -> [self, objects]
    pc,         \* per request slot: where its handler stands
    req,        \* the request the slot serves
    t,          \* the handler's *Tenant
    calls,      \* the store and cluster calls the handler has made
    result,     \* what the handler returned: [err, tenant]
    http        \* the HTTP exchange of the slot: [route, auth, body, status]

vars == <<store, cluster, pc, req, t, calls, result, http>>

NoRows == [k \in {} |-> Nil]
NoNamespaces == [k \in {} |-> Nil]
NoReq == [op |-> "none"]
NoResult == [err |-> Nil, tenant |-> NoTenant]
NoExchange == [route |-> "none", auth |-> <<>>, body |-> "none", status |-> 0]

Init ==
    /\ store = NoRows
    /\ cluster = NoNamespaces
    /\ pc = [p \in Procs |-> "idle"]
    /\ req = [p \in Procs |-> NoReq]
    /\ t = [p \in Procs |-> NoTenant]
    /\ calls = [p \in Procs |-> <<>>]
    /\ result = [p \in Procs |-> NoResult]
    /\ http = [p \in Procs |-> NoExchange]

\* One entry of a handler's call record: the call to the store, the renderer
\* or the applier, the tenant ID or the namespace it is about, the deployment
\* it names (if any), and what it returned: "ok", "error", or "no rows" for
\* a store.Get that found nothing.
Ret(ok) == IF ok THEN "ok" ELSE "error"

Call(name, key, ok) == [call |-> name, key |-> key, name |-> "", ret |-> Ret(ok)]

GetCall(st, id, dbFail) ==
    [call |-> "store.Get", key |-> id, name |-> "",
     ret |-> IF dbFail THEN "error" ELSE IF id \in DOMAIN st THEN "ok" ELSE "no rows"]

\* The entry of an Apply carries the patches Apply sent and the number of
\* them the cluster accepted.
ApplyCall(key, a) ==
    [call |-> "Apply", key |-> key, name |-> "", ret |-> Ret(a.ok),
     sent |-> a.sent, accepted |-> a.patched]

RestartCall(ns, name, ok) ==
    [call |-> "RestartDeployment", key |-> ns, name |-> name, ret |-> Ret(ok)]

\* The handler returns.
Finish(p, err, tenant) ==
    /\ pc' = [pc EXCEPT ![p] = "done"]
    /\ result' = [result EXCEPT ![p] = [err |-> err, tenant |-> tenant]]

\* The handler goes on to its next call.
Goto(p, label) ==
    /\ pc' = [pc EXCEPT ![p] = label]
    /\ UNCHANGED result

Logged(p, entry) == calls' = [calls EXCEPT ![p] = Append(@, entry)]

Logged2(p, e1, e2) == calls' = [calls EXCEPT ![p] = Append(Append(@, e1), e2)]

(***************************************************************************)
(* Service.Create                                                          *)
(***************************************************************************)
\* The Tenant is built as "active" from the start.
InitialStatusActive == "active"

\* Line 87: the status of the Tenant that Create builds.
InitialStatus == "provisioning"

NewTenant(r) ==
    [ID |-> r.TenantID,
     DisplayName |-> r.DisplayName,
     Namespace |-> NamespacePrefix \o r.TenantID,
     ConfigJSON |-> buildConfigJSON(r.Providers, r.Agents, r.Channels),
     Resources |-> IF r.Resources # NilResources
                   THEN mergeResources(DefaultResources, r.Resources)
                   ELSE DefaultResources,
     Status |-> InitialStatus]

\* The existence check is skipped.
ConflictIgnored(existing) == FALSE

\* Line 66: existing != nil.
Conflict(existing) == existing # NoTenant

\* A Create that finds another Create of the same ID under way is turned
\* down as a conflict.
CreateBeginSerialised(p, r, dbFail, renderFail) ==
    /\ pc[p] = "idle"
    /\ req' = [req EXCEPT ![p] = r]
    /\ UNCHANGED <<store, cluster>>
    /\ IF validateTenantID(r.TenantID) # Nil
       THEN /\ Finish(p, validateTenantID(r.TenantID), NoTenant)
            /\ UNCHANGED <<t, calls>>
       ELSE IF r.DisplayName = ""
       THEN /\ Finish(p, ErrDisplayNameRequired, NoTenant)
            /\ UNCHANGED <<t, calls>>
       ELSE IF dbFail
       THEN /\ Finish(p, ErrCheckExisting, NoTenant)
            /\ Logged(p, GetCall(store, r.TenantID, dbFail))
            /\ UNCHANGED t
       ELSE IF \/ Conflict(storeGet(store, r.TenantID))
               \/ \E q \in Procs \ {p} :
                    /\ pc[q] \in {"create_apply", "create_store"}
                    /\ req[q].TenantID = r.TenantID
       THEN /\ Finish(p, ErrAlreadyExists, NoTenant)
            /\ Logged(p, GetCall(store, r.TenantID, dbFail))
            /\ UNCHANGED t
       ELSE /\ t' = [t EXCEPT ![p] = NewTenant(r)]
            /\ Logged2(p, GetCall(store, r.TenantID, dbFail),
                          Call("RenderAll", r.TenantID, ~renderFail))
            /\ IF renderFail
               THEN Finish(p, ErrRender, NoTenant)
               ELSE Goto(p, "create_apply")

\* Lines 54-96: validation, the existence check, the Tenant and its render.
CreateBegin(p, r, dbFail, renderFail) ==
    /\ pc[p] = "idle"
    /\ req' = [req EXCEPT ![p] = r]
    /\ UNCHANGED <<store, cluster>>
    /\ IF validateTenantID(r.TenantID) # Nil
       THEN /\ Finish(p, validateTenantID(r.TenantID), NoTenant)
            /\ UNCHANGED <<t, calls>>
       ELSE IF r.DisplayName = ""
       THEN /\ Finish(p, ErrDisplayNameRequired, NoTenant)
            /\ UNCHANGED <<t, calls>>
       ELSE IF dbFail
       THEN /\ Finish(p, ErrCheckExisting, NoTenant)
            /\ Logged(p, GetCall(store, r.TenantID, dbFail))
            /\ UNCHANGED t
       ELSE IF Conflict(storeGet(store, r.TenantID))
       THEN /\ Finish(p, ErrAlreadyExists, NoTenant)
            /\ Logged(p, GetCall(store, r.TenantID, dbFail))
            /\ UNCHANGED t
       ELSE /\ t' = [t EXCEPT ![p] = NewTenant(r)]
            /\ Logged2(p, GetCall(store, r.TenantID, dbFail),
                          Call("RenderAll", r.TenantID, ~renderFail))
            /\ IF renderFail
               THEN Finish(p, ErrRender, NoTenant)
               ELSE Goto(p, "create_apply")

\* The error of Apply is dropped and Create goes on to the insert.
CreateApplyErrorIgnored(p, failAt) ==
    /\ pc[p] = "create_apply"
    /\ LET a == Apply(cluster, RenderAll(ToVars(t[p])), failAt)
       IN  /\ cluster' = a.cluster
           /\ Logged(p, ApplyCall(t[p].Namespace, a))
           /\ Goto(p, "create_store")
    /\ UNCHANGED <<store, req, t>>

\* Lines 98-100: s.applier.Apply(ctx, manifests).
CreateApply(p, failAt) ==
    /\ pc[p] = "create_apply"
    /\ LET a == Apply(cluster, RenderAll(ToVars(t[p])), failAt)
       IN  /\ cluster' = a.cluster
           /\ Logged(p, ApplyCall(t[p].Namespace, a))
           /\ IF a.ok THEN Goto(p, "create_store")
                      ELSE Finish(p, ErrApply, NoTenant)
    /\ UNCHANGED <<store, req, t>>

\* Line 102: s.store.Create(t).
CreateStore(p, dbFail) ==
    /\ pc[p] = "create_store"
    /\ IF dbFail \/ ~CanInsert(store, t[p])
       THEN /\ Logged(p, Call("store.Create", t[p].ID, FALSE))
            /\ Goto(p, "create_cleanup")
            /\ UNCHANGED store
       ELSE /\ Logged(p, Call("store.Create", t[p].ID, TRUE))
            /\ store' = Put(store, t[p].ID, RowOf(t[p]))
            /\ Goto(p, "create_flip")
    /\ UNCHANGED <<cluster, req, t>>

\* The error of the cleanup is returned in place of the store's.
CreateCleanupSurfaced(p, k8sFail) ==
    /\ pc[p] = "create_cleanup"
    /\ LET ns == t[p].Namespace
           ok == ns \in DOMAIN cluster /\ ~k8sFail
       IN  /\ Logged(p, Call("DeleteNamespace", ns, ok))
           /\ cluster' = IF ok THEN RemoveNamespace(cluster, ns) ELSE cluster
           /\ Finish(p, IF ok THEN ErrStoreTenant ELSE ErrDeleteNamespace, NoTenant)
    /\ UNCHANGED <<store, req, t>>

\* Lines 103-105: the cleanup after a failed insert; its error is dropped.
CreateCleanup(p, k8sFail) ==
    /\ pc[p] = "create_cleanup"
    /\ LET ns == t[p].Namespace
           ok == ns \in DOMAIN cluster /\ ~k8sFail
       IN  /\ Logged(p, Call("DeleteNamespace", ns, ok))
           /\ cluster' = IF ok THEN RemoveNamespace(cluster, ns) ELSE cluster
    /\ Finish(p, ErrStoreTenant, NoTenant)
    /\ UNCHANGED <<store, req, t>>

\* Lines 108-111: the status flip; the error of store.Update is dropped.
CreateFlip(p, dbFail) ==
    /\ pc[p] = "create_flip"
    /\ LET active == [t[p] EXCEPT !.Status = "active"]
           ok == ~dbFail /\ active.ID \in DOMAIN store
       IN  /\ t' = [t EXCEPT ![p] = active]
           /\ Logged(p, Call("store.Update", active.ID, ok))
           /\ store' = IF ok THEN [store EXCEPT ![active.ID] = UpdatedRow(@, active)]
                       ELSE store
           /\ Finish(p, Nil, active)
    /\ UNCHANGED <<cluster, req>>


(***************************************************************************)
(* Service.Get, Service.Update                                             *)
(***************************************************************************)
\* Lines 115-124: a missing tenant is (nil, nil), not an error.
Get(p, id, dbFail) ==
    /\ pc[p] = "idle"
    /\ req' = [req EXCEPT ![p] = [op |-> "Get", TenantID |-> id]]
    /\ Logged(p, GetCall(store, id, dbFail))
    /\ IF dbFail THEN Finish(p, ErrStoreGet, NoTenant)
       ELSE Finish(p, Nil, storeGet(store, id))
    /\ UNCHANGED <<store, cluster, t>>

\* Lines 127-129: the store's list, passed through.
List(p, dbFail) ==
    /\ pc[p] = "idle"
    /\ req' = [req EXCEPT ![p] = [op |-> "List"]]
    /\ Logged(p, Call("store.List", <<>>, ~dbFail))
    /\ IF dbFail THEN Finish(p, ErrStoreList, NoTenant)
       ELSE Finish(p, Nil, [list |-> storeList(store)])
    /\ UNCHANGED <<store, cluster, t>>

\* The document is rebuilt whether or not a key is supplied.
UpdatedConfigAlwaysRebuilt(raw, r) ==
    LET e0 == Unmarshal(raw)
        e1 == IF r.Providers # NilMap THEN Put(e0, "providers", r.Providers) ELSE e0
        e2 == IF r.Agents # NilMap THEN Put(e1, "agents", r.Agents) ELSE e1
        e3 == IF r.Channels # NilMap THEN Put(e2, "channels", r.Channels) ELSE e2
    IN  MarshalIndent(e3)

\* One JSON object laid over another, key by key.
Over(a, b) ==
    [x \in DOMAIN a \cup DOMAIN b |-> IF x \in DOMAIN b THEN b[x] ELSE a[x]]

\* A supplied key is merged into the stored value, two levels deep, where
\* the stored document has the key.
DeepPut(m, k, v) ==
    IF k \in DOMAIN m
    THEN Put(m, k, [x \in DOMAIN m[k] \cup DOMAIN v |->
                        IF x \in DOMAIN m[k] \cap DOMAIN v THEN Over(m[k][x], v[x])
                        ELSE IF x \in DOMAIN v THEN v[x] ELSE m[k][x]])
    ELSE Put(m, k, v)

UpdatedConfigDeepMerge(raw, r) ==
    IF r.Providers # NilMap \/ r.Agents # NilMap \/ r.Channels # NilMap
    THEN LET e0 == Unmarshal(raw)
             e1 == IF r.Providers # NilMap THEN DeepPut(e0, "providers", r.Providers) ELSE e0
             e2 == IF r.Agents # NilMap THEN DeepPut(e1, "agents", r.Agents) ELSE e1
             e3 == IF r.Channels # NilMap THEN DeepPut(e2, "channels", r.Channels) ELSE e2
         IN  MarshalIndent(e3)
    ELSE raw

\* Lines 145-165: the supplied keys replace those of the stored document.
UpdatedConfig(raw, r) ==
    IF r.Providers # NilMap \/ r.Agents # NilMap \/ r.Channels # NilMap
    THEN LET e0 == Unmarshal(raw)
             e1 == IF r.Providers # NilMap THEN Put(e0, "providers", r.Providers) ELSE e0
             e2 == IF r.Agents # NilMap THEN Put(e1, "agents", r.Agents) ELSE e1
             e3 == IF r.Channels # NilMap THEN Put(e2, "channels", r.Channels) ELSE e2
         IN  MarshalIndent(e3)
    ELSE raw

\* Lines 141-169: the request laid over the stored tenant.
\* An Update marks the tenant it rewrites as "active".
UpdatedTenantActive(old, r) ==
    [old EXCEPT
        !.DisplayName = IF r.DisplayName # "" THEN r.DisplayName ELSE @,
        !.ConfigJSON = UpdatedConfig(@, r),
        !.Resources = IF r.Resources # NilResources THEN mergeResources(@, r.Resources) ELSE @,
        !.Status = "active"]

UpdatedTenant(old, r) ==
    [old EXCEPT
        !.DisplayName = IF r.DisplayName # "" THEN r.DisplayName ELSE @,
        !.ConfigJSON = UpdatedConfig(@, r),
        !.Resources = IF r.Resources # NilResources THEN mergeResources(@, r.Resources) ELSE @]

\* Lines 132-175: the lookup, the changes and the render.
UpdateBegin(p, r, dbFail, renderFail) ==
    /\ pc[p] = "idle"
    /\ req' = [req EXCEPT ![p] = r]
    /\ UNCHANGED <<store, cluster>>
    /\ IF dbFail
       THEN /\ Finish(p, ErrStoreGet, NoTenant)
            /\ Logged(p, GetCall(store, r.TenantID, dbFail))
            /\ UNCHANGED t
       ELSE IF storeGet(store, r.TenantID) = NoTenant
       THEN /\ Finish(p, ErrNotFound, NoTenant)
            /\ Logged(p, GetCall(store, r.TenantID, dbFail))
            /\ UNCHANGED t
       ELSE /\ t' = [t EXCEPT ![p] = UpdatedTenant(storeGet(store, r.TenantID), r)]
            /\ Logged2(p, GetCall(store, r.TenantID, dbFail),
                          Call("RenderAll", r.TenantID, ~renderFail))
            /\ IF renderFail
               THEN Finish(p, ErrRender, NoTenant)
               ELSE Goto(p, "update_apply")

\* Lines 177-179.
UpdateApply(p, failAt) ==
    /\ pc[p] = "update_apply"
    /\ LET a == Apply(cluster, RenderAll(ToVars(t[p])), failAt)
       IN  /\ cluster' = a.cluster
           /\ Logged(p, ApplyCall(t[p].Namespace, a))
           /\ IF a.ok THEN Goto(p, "update_store")
                      ELSE Finish(p, ErrApply, NoTenant)
    /\ UNCHANGED <<store, req, t>>

\* The write is refused when the row is no longer the one the Update read.
UpdateStoreIfUnchanged(p, dbFail) ==
    /\ pc[p] = "update_store"
    /\ LET ok == /\ ~dbFail /\ t[p].ID \in DOMAIN store
                 /\ UpdatedTenant(storeGet(store, t[p].ID), req[p]) = t[p]
       IN  /\ Logged(p, Call("store.Update", t[p].ID, ok))
           /\ store' = IF ok THEN [store EXCEPT ![t[p].ID] = UpdatedRow(@, t[p])]
                       ELSE store
           /\ IF ok THEN Finish(p, Nil, t[p])
                    ELSE Finish(p, ErrStoreUpdate, NoTenant)
    /\ UNCHANGED <<cluster, req, t>>

\* When the write fails, the manifests of the stored tenant are applied
\* again to put the cluster back.
UpdateStoreRevertsCluster(p, dbFail) ==
    /\ pc[p] = "update_store"
    /\ LET ok == ~dbFail /\ t[p].ID \in DOMAIN store
           back == IF t[p].ID \in DOMAIN store
                   THEN Apply(cluster, RenderAll(ToVars(storeGet(store, t[p].ID))), 0)
                   ELSE Applied(cluster, Nil, 0, <<>>)
       IN  /\ store' = IF ok THEN [store EXCEPT ![t[p].ID] = UpdatedRow(@, t[p])]
                       ELSE store
           /\ IF ok
              THEN /\ Logged(p, Call("store.Update", t[p].ID, ok))
                   /\ Finish(p, Nil, t[p])
                   /\ UNCHANGED cluster
              ELSE /\ Logged2(p, Call("store.Update", t[p].ID, ok),
                                 ApplyCall(t[p].Namespace, back))
                   /\ Finish(p, ErrStoreUpdate, NoTenant)
                   /\ cluster' = back.cluster
    /\ UNCHANGED <<req, t>>

\* Lines 181-185: store.Update fails when no row has the id.
UpdateStore(p, dbFail) ==
    /\ pc[p] = "update_store"
    /\ LET ok == ~dbFail /\ t[p].ID \in DOMAIN store
       IN  /\ Logged(p, Call("store.Update", t[p].ID, ok))
           /\ store' = IF ok THEN [store EXCEPT ![t[p].ID] = UpdatedRow(@, t[p])]
                       ELSE store
           /\ IF ok THEN Finish(p, Nil, t[p])
                    ELSE Finish(p, ErrStoreUpdate, NoTenant)
    /\ UNCHANGED <<cluster, req, t>>

(***************************************************************************)
(* Service.Delete, Service.Restart                                         *)
(***************************************************************************)
\* A Delete of a tenant that is not there counts as done.
DeleteBeginMissingOk(p, id, dbFail) ==
    /\ pc[p] = "idle"
    /\ req' = [req EXCEPT ![p] = [op |-> "Delete", TenantID |-> id]]
    /\ Logged(p, GetCall(store, id, dbFail))
    /\ UNCHANGED <<store, cluster>>
    /\ IF dbFail
       THEN /\ Finish(p, ErrStoreGet, NoTenant)
            /\ UNCHANGED t
       ELSE IF storeGet(store, id) = NoTenant
       THEN /\ Finish(p, Nil, NoTenant)
            /\ UNCHANGED t
       ELSE /\ t' = [t EXCEPT ![p] = storeGet(store, id)]
            /\ Goto(p, "delete_namespace")

\* Lines 189-196.
DeleteBegin(p, id, dbFail) ==
    /\ pc[p] = "idle"
    /\ req' = [req EXCEPT ![p] = [op |-> "Delete", TenantID |-> id]]
    /\ Logged(p, GetCall(store, id, dbFail))
    /\ UNCHANGED <<store, cluster>>
    /\ IF dbFail
       THEN /\ Finish(p, ErrStoreGet, NoTenant)
            /\ UNCHANGED t
       ELSE IF storeGet(store, id) = NoTenant
       THEN /\ Finish(p, ErrNotFound, NoTenant)
            /\ UNCHANGED t
       ELSE /\ t' = [t EXCEPT ![p] = storeGet(store, id)]
            /\ Goto(p, "delete_namespace")

\* The error of DeleteNamespace is dropped and Delete goes on to the store.
DeleteNamespaceErrorIgnored(p, k8sFail) ==
    /\ pc[p] = "delete_namespace"
    /\ LET ns == t[p].Namespace
           ok == ns \in DOMAIN cluster /\ ~k8sFail
       IN  /\ Logged(p, Call("DeleteNamespace", ns, ok))
           /\ cluster' = IF ok THEN RemoveNamespace(cluster, ns) ELSE cluster
           /\ Goto(p, "delete_store")
    /\ UNCHANGED <<store, req, t>>

\* Lines 198-200.
DeleteNamespace(p, k8sFail) ==
    /\ pc[p] = "delete_namespace"
    /\ LET ns == t[p].Namespace
           ok == ns \in DOMAIN cluster /\ ~k8sFail
       IN  /\ Logged(p, Call("DeleteNamespace", ns, ok))
           /\ cluster' = IF ok THEN RemoveNamespace(cluster, ns) ELSE cluster
           /\ IF ok THEN Goto(p, "delete_store")
                    ELSE Finish(p, ErrDeleteNamespace, NoTenant)
    /\ UNCHANGED <<store, req, t>>

\* When store.Delete fails the namespace is put back.
DeleteStoreUndo(p, dbFail) ==
    /\ pc[p] = "delete_store"
    /\ LET id == req[p].TenantID
           ok == ~dbFail /\ id \in DOMAIN store
       IN  /\ Logged(p, Call("store.Delete", id, ok))
           /\ store' = IF ok THEN [i \in DOMAIN store \ {id} |-> store[i]] ELSE store
           /\ cluster' = IF ok THEN cluster
                         ELSE Put(cluster, t[p].Namespace,
                                  [self |-> ToVars(t[p]), objects |-> NoObjects])
           /\ IF ok THEN Finish(p, Nil, NoTenant)
                    ELSE Finish(p, ErrStoreDelete, NoTenant)
    /\ UNCHANGED <<req, t>>

\* Line 202: store.Delete fails when no row has the id.
DeleteStore(p, dbFail) ==
    /\ pc[p] = "delete_store"
    /\ LET id == req[p].TenantID
           ok == ~dbFail /\ id \in DOMAIN store
       IN  /\ Logged(p, Call("store.Delete", id, ok))
           /\ store' = IF ok THEN [i \in DOMAIN store \ {id} |-> store[i]] ELSE store
           /\ IF ok THEN Finish(p, Nil, NoTenant)
                    ELSE Finish(p, ErrStoreDelete, NoTenant)
    /\ UNCHANGED <<cluster, req, t>>

\* Lines 206-213.
RestartBegin(p, id, dbFail) ==
    /\ pc[p] = "idle"
    /\ req' = [req EXCEPT ![p] = [op |-> "Restart", TenantID |-> id]]
    /\ Logged(p, GetCall(store, id, dbFail))
    /\ UNCHANGED <<store, cluster>>
    /\ IF dbFail
       THEN /\ Finish(p, ErrStoreGet, NoTenant)
            /\ UNCHANGED t
       ELSE IF storeGet(store, id) = NoTenant
       THEN /\ Finish(p, ErrNotFound, NoTenant)
            /\ UNCHANGED t
       ELSE /\ t' = [t EXCEPT ![p] = storeGet(store, id)]
            /\ Goto(p, "restart_agent")

\* RestartDeployment patches an annotation of an existing deployment; the
\* annotation's value is a timestamp and is not part of the cluster state.
CanRestart(cl, ns, name) ==
    ns \in DOMAIN cl /\ <<"Deployment", name>> \in DOMAIN cl[ns].objects

\* The error of the agent's restart is dropped and the gateway's follows.
RestartAgentErrorIgnored(p, k8sFail) ==
    /\ pc[p] = "restart_agent"
    /\ LET ok == CanRestart(cluster, t[p].Namespace, AgentDeployment) /\ ~k8sFail
       IN  /\ Logged(p, RestartCall(t[p].Namespace, AgentDeployment, ok))
           /\ Goto(p, "restart_gateway")
    /\ UNCHANGED <<store, cluster, req, t>>

\* Lines 215-217.
RestartAgent(p, k8sFail) ==
    /\ pc[p] = "restart_agent"
    /\ LET ok == CanRestart(cluster, t[p].Namespace, AgentDeployment) /\ ~k8sFail
       IN  /\ Logged(p, RestartCall(t[p].Namespace, AgentDeployment, ok))
           /\ IF ok THEN Goto(p, "restart_gateway")
                    ELSE Finish(p, ErrRestartAgent, NoTenant)
    /\ UNCHANGED <<store, cluster, req, t>>

\* Lines 218-221.
RestartGateway(p, k8sFail) ==
    /\ pc[p] = "restart_gateway"
    /\ LET ok == CanRestart(cluster, t[p].Namespace, GatewayDeployment) /\ ~k8sFail
       IN  /\ Logged(p, RestartCall(t[p].Namespace, GatewayDeployment, ok))
           /\ IF ok THEN Finish(p, Nil, NoTenant)
                    ELSE Finish(p, ErrRestartGateway, NoTenant)
    /\ UNCHANGED <<store, cluster, req, t>>

(***************************************************************************)
(* The applier called on its own                                           *)
(***************************************************************************)
\* Applier.Apply on a manifest stream.
ApplierApply(p, manifests, failAt) ==
    /\ pc[p] = "idle"
    /\ req' = [req EXCEPT ![p] = [op |-> "Apply", manifests |-> manifests]]
    /\ LET a == Apply(cluster, manifests, failAt)
       IN  /\ cluster' = a.cluster
           /\ Logged(p, ApplyCall(<<>>, a))
           /\ Finish(p, a.err, NoTenant)
    /\ UNCHANGED <<store, t>>

\* Applier.DeleteNamespace on a namespace.
ApplierDeleteNamespace(p, ns) ==
    /\ pc[p] = "idle"
    /\ req' = [req EXCEPT ![p] = [op |-> "DeleteNamespace", namespace |-> ns]]
    /\ Logged(p, Call("DeleteNamespace", ns, ns \in DOMAIN cluster))
    /\ cluster' = IF ns \in DOMAIN cluster THEN RemoveNamespace(cluster, ns)
                  ELSE cluster
    /\ Finish(p, IF ns \in DOMAIN cluster THEN Nil ELSE ErrDeleteNamespace, NoTenant)
    /\ UNCHANGED <<store, t>>

\* The response is written; the slot is free for the next request.
Return(p) ==
    /\ pc[p] = "done"
    /\ pc' = [pc EXCEPT ![p] = "idle"]
    /\ req' = [req EXCEPT ![p] = NoReq]
    /\ t' = [t EXCEPT ![p] = NoTenant]
    /\ calls' = [calls EXCEPT ![p] = <<>>]
    /\ result' = [result EXCEPT ![p] = NoResult]
    /\ UNCHANGED <<store, cluster>>

\* A step A of the service when it is called without the HTTP layer.
Direct(A) == A /\ UNCHANGED http

(***************************************************************************)
(* The HTTP API: the router, APIKeyAuth and the handlers                   *)
(***************************************************************************)
StatusOK == 200
StatusCreated == 201
StatusNoContent == 204
StatusBadRequest == 400
StatusUnauthorized == 401
StatusForbidden == 403
StatusNotFound == 404
StatusInternalServerError == 500

\* The API key the server was started with; a header's value is the sequence
\* of its characters.
APIKey == <<"k", "e", "y">>

BearerPrefix == <<"B", "e", "a", "r", "e", "r", " ">>

\* strings.CutPrefix: s without the prefix, and whether s began with it.
CutPrefix(s, prefix) ==
    IF Len(s) >= Len(prefix) /\ SubSeq(s, 1, Len(prefix)) = prefix
    THEN [after |-> SubSeq(s, Len(prefix) + 1, Len(s)), found |-> TRUE]
    ELSE [after |-> s, found |-> FALSE]

\* subtle.ConstantTimeCompare: 1 when the two have the same length and the
\* same content, else 0.
ConstantTimeCompare(x, y) ==
    IF Len(x) = Len(y) /\ \A i \in 1..Len(x) : x[i] = y[i] THEN 1 ELSE 0

\* A key that begins with the configured one is let through.
APIKeyAuthKeyPrefix(apiKey, auth) ==
    IF auth = <<>>
    THEN [next |-> FALSE, status |-> StatusUnauthorized]
    ELSE IF ~CutPrefix(auth, BearerPrefix).found
    THEN [next |-> FALSE, status |-> StatusUnauthorized]
    ELSE IF ~CutPrefix(CutPrefix(auth, BearerPrefix).after, apiKey).found
    THEN [next |-> FALSE, status |-> StatusForbidden]
    ELSE [next |-> TRUE, status |-> 0]

\* The middleware on the value of the Authorization header: whether the
\* next handler is served, and the status written when it is not.
APIKeyAuth(apiKey, auth) ==
    IF auth = <<>>
    THEN [next |-> FALSE, status |-> StatusUnauthorized]
    ELSE IF ~CutPrefix(auth, BearerPrefix).found
    THEN [next |-> FALSE, status |-> StatusUnauthorized]
    ELSE IF ConstantTimeCompare(CutPrefix(auth, BearerPrefix).after, apiKey) # 1
    THEN [next |-> FALSE, status |-> StatusForbidden]
    ELSE [next |-> TRUE, status |-> 0]

\* The status a handler writes once the service has returned res.
StatusOf(op, res) ==
    IF res.err # Nil THEN StatusInternalServerError
    ELSE IF op = "Create" THEN StatusCreated
    ELSE IF op = "Get"
    THEN (IF res.tenant = NoTenant THEN StatusNotFound ELSE StatusOK)
    ELSE IF op = "Delete" THEN StatusNoContent
    ELSE StatusOK

\* writeJSON with no call of the service: the exchange is over.
Respond(p, route, auth, body, status) ==
    /\ pc[p] = "idle"
    /\ pc' = [pc EXCEPT ![p] = "done"]
    /\ http' = [http EXCEPT ![p] =
                    [route |-> route, auth |-> auth, body |-> body, status |-> status]]
    /\ UNCHANGED <<store, cluster, req, t, calls, result>>

\* A request on its way to the service: /health is public; the routes under
\* /api/v1 pass the middleware first; CreateTenant and UpdateTenant decode
\* the body; then the service runs its first step A, and the handler writes
\* the status if the service has returned already.
Routed(p, route, auth, body, A) ==
    IF route = "health"
    THEN Respond(p, route, auth, body, StatusOK)
    ELSE IF ~APIKeyAuth(APIKey, auth).next
    THEN Respond(p, route, auth, body, APIKeyAuth(APIKey, auth).status)
    ELSE IF route \in {"create", "update"} /\ body = "invalid"
    THEN Respond(p, route, auth, body, StatusBadRequest)
    ELSE /\ A
         /\ http' = [http EXCEPT ![p] =
                        [route |-> route, auth |-> auth, body |-> body,
                         status |-> IF pc'[p] = "done"
                                    THEN StatusOf(req'[p].op, result'[p])
                                    ELSE 0]]

\* A later step A of the service; the handler writes the status when the
\* service returns.
Handle(p, A) ==
    /\ A
    /\ http' = [http EXCEPT ![p].status =
                    IF pc'[p] = "done" THEN StatusOf(req'[p].op, result'[p]) ELSE @]

\* The response is out and the slot is free.
Answered(p) ==
    /\ Return(p)
    /\ http' = [http EXCEPT ![p] = NoExchange]


(***************************************************************************)
(* Requests                                                                *)
(***************************************************************************)
acme == <<"a","c","m","e">>

\* A valid ID of the greatest length, with a digit and an inner hyphen.
LongID == <<"a","-","1">> \o Rep("a", MaxTenantIDLen - 3)

ValidIDs == {acme, LongID}

InvalidIDs ==
    {<<>>, <<"A","C","M","E">>, <<"a","_","b">>, <<"-","a">>, <<"a","-">>,
     Rep("a", MaxTenantIDLen + 1), <<"a","-">> \o Rep("a", RegexMiddleMax + 2)}

P1 == [openai |-> [api_key |-> "k1", base_url |-> "u1"]]
P2 == [openai |-> [api_key |-> "k2"]]
A1 == [defaults |-> [model |-> "m1"]]
C1 == [telegram |-> [token |-> "t1"]]
EmptyMap == [k \in {} |-> Nil]

NoOverride ==
    [AgentCPU |-> "", AgentMemory |-> "", GatewayCPU |-> "",
     GatewayMemory |-> "", WorkspaceSize |-> ""]
OnlyMemory == [NoOverride EXCEPT !.AgentMemory = "2Gi"]
OnlyGateway == [NoOverride EXCEPT !.GatewayCPU = "750m", !.GatewayMemory = "768Mi"]
AllFive ==
    [AgentCPU |-> "1", AgentMemory |-> "4Gi", GatewayCPU |-> "2",
     GatewayMemory |-> "1Gi", WorkspaceSize |-> "2Gi"]

CreateRequest(id, name, providers, agents, channels, resources) ==
    [op |-> "Create", TenantID |-> id, DisplayName |-> name,
     Providers |-> providers, Agents |-> agents, Channels |-> channels,
     Resources |-> resources]

UpdateRequest(id, name, providers, agents, channels, resources) ==
    [op |-> "Update", TenantID |-> id, DisplayName |-> name,
     Providers |-> providers, Agents |-> agents, Channels |-> channels,
     Resources |-> resources]

CreateAcme == CreateRequest(acme, "ACME", NilMap, NilMap, NilMap, NilResources)

\* Requests that differ in the tenant ID alone, and one without a name.
CreateRequests ==
    {CreateRequest(id, "ACME", NilMap, NilMap, NilMap, NilResources) :
        id \in ValidIDs \cup InvalidIDs}
    \cup {CreateRequest(acme, "", NilMap, NilMap, NilMap, NilResources)}

\* Requests for one tenant that differ in what they configure.
CreateRequestsData ==
    {CreateRequest(acme, "ACME", NilMap, NilMap, NilMap, NilResources),
     CreateRequest(acme, "ACME", P1, A1, NilMap, OnlyMemory),
     CreateRequest(acme, "ACME", P1, EmptyMap, C1, NoOverride)}

UpdateRequests ==
    {UpdateRequest(acme, "ACME Corporation", NilMap, NilMap, NilMap, NilResources)}

UpdateRequestsData ==
    {UpdateRequest(acme, "ACME Corporation", NilMap, NilMap, NilMap, NilResources),
     UpdateRequest(acme, "", NilMap, NilMap, NilMap, NilResources),
     UpdateRequest(acme, "", P2, NilMap, NilMap, NilResources),
     UpdateRequest(acme, "", NilMap, A1, NilMap, NilResources),
     UpdateRequest(acme, "", NilMap, NilMap, NilMap, OnlyMemory),
     UpdateRequest(acme, "", NilMap, NilMap, NilMap, OnlyGateway),
     UpdateRequest(acme, "", NilMap, NilMap, NilMap, NoOverride),
     UpdateRequest(acme, "ACME Corporation", NilMap, NilMap, NilMap, AllFive)}

CreateRequestsReapply ==
    {CreateAcme, CreateRequest(acme, "ACME", P1, A1, NilMap, OnlyMemory)}

UpdateRequestsReapply ==
    {UpdateRequest(acme, "", NilMap, NilMap, NilMap, NilResources),
     UpdateRequest(acme, "", P2, NilMap, NilMap, NilResources),
     UpdateRequest(acme, "", NilMap, NilMap, NilMap, AllFive)}

\* Where Apply can be refused: nowhere (0), or at any of its documents.
FailPoints == 0..Len(templateNames)

\* Longest manifest stream, in documents, handed to the applier on its own.
MaxStreamLen == 3

\* The documents of those streams: a Namespace, two revisions of a ConfigMap
\* in it, an object of a kind the cluster does not serve, a document without
\* a kind, and the two blank documents.
Document(kind, namespace, name, body) ==
    [kind |-> kind, namespace |-> namespace, name |-> name, body |-> body]

TenantNamespace == NamespacePrefix \o acme

Documents ==
    {Document("Namespace", <<>>, "", [Namespace |-> TenantNamespace]),
     Document("ConfigMap", TenantNamespace, "cm", [rev |-> 1]),
     Document("ConfigMap", TenantNamespace, "cm", [rev |-> 2]),
     Document("Widget", TenantNamespace, "w", [rev |-> 1]),
     Document("", <<>>, "", [data |-> "x"]),
     EmptyDocument,
     BareSeparator}

\* A stream as the renderer writes it.
RenderedStreams == {RenderAll(ToVars(NewTenant(CreateAcme)))}

Streams ==
    UNION {[1..n -> Documents] : n \in 0..MaxStreamLen} \cup RenderedStreams

(***************************************************************************)
(* Specifications                                                          *)
(***************************************************************************)
\* One step of the request in slot p.  The requests are drawn from creates,
\* updates and ids; fails holds the outcomes of the store, the renderer and
\* the cluster that can go wrong (TRUE), points where Apply can be refused.
Step(p, creates, updates, ids, fails, points) ==
    \/ \E r \in creates, dbFail, renderFail \in fails :
            Direct(CreateBegin(p, r, dbFail, renderFail))
    \/ \E failAt \in points : Direct(CreateApply(p, failAt))
    \/ \E dbFail \in fails : Direct(CreateStore(p, dbFail))
    \/ \E k8sFail \in fails : Direct(CreateCleanup(p, k8sFail))
    \/ \E dbFail \in fails : Direct(CreateFlip(p, dbFail))
    \/ \E id \in ids, dbFail \in fails : Direct(Get(p, id, dbFail))
    \/ \E dbFail \in fails : Direct(List(p, dbFail))
    \/ \E r \in updates, dbFail, renderFail \in fails :
            Direct(UpdateBegin(p, r, dbFail, renderFail))
    \/ \E failAt \in points : Direct(UpdateApply(p, failAt))
    \/ \E dbFail \in fails : Direct(UpdateStore(p, dbFail))
    \/ \E id \in ids, dbFail \in fails : Direct(DeleteBegin(p, id, dbFail))
    \/ \E k8sFail \in fails : Direct(DeleteNamespace(p, k8sFail))
    \/ \E dbFail \in fails : Direct(DeleteStore(p, dbFail))
    \/ \E id \in ids, dbFail \in fails : Direct(RestartBegin(p, id, dbFail))
    \/ \E k8sFail \in fails : Direct(RestartAgent(p, k8sFail))
    \/ \E k8sFail \in fails : Direct(RestartGateway(p, k8sFail))
    \/ Direct(Return(p))

\* One request at a time, for any tenant ID, with every failure.
Next ==
    Step(1, CreateRequests, UpdateRequests, ValidIDs, BOOLEAN, FailPoints)

Spec == Init /\ [][Next]_vars

\* One request at a time for one tenant, with every configuration.
NextData ==
    Step(1, CreateRequestsData, UpdateRequestsData, {acme}, BOOLEAN, {0, 1})

SpecData == Init /\ [][NextData]_vars

\* Requests for one tenant in flight together.  The calls that fail at will
\* are those of Create; a call of Update or Delete fails when the state of
\* the store or the cluster makes it fail.
\* The free slot a new request takes: the lowest.
Free(p) == pc[p] = "idle" /\ \A q \in 1..(p - 1) : pc[q] # "idle"

NextConc ==
    \E p \in Procs :
        \/ Free(p) /\ Direct(CreateBegin(p, CreateAcme, FALSE, FALSE))
        \/ \E failAt \in {0, 2} : Direct(CreateApply(p, failAt))
        \/ \E dbFail \in BOOLEAN : Direct(CreateStore(p, dbFail))
        \/ \E k8sFail \in BOOLEAN : Direct(CreateCleanup(p, k8sFail))
        \/ \E dbFail \in BOOLEAN : Direct(CreateFlip(p, dbFail))
        \/ Free(p) /\ \E r \in UpdateRequests : Direct(UpdateBegin(p, r, FALSE, FALSE))
        \/ Direct(UpdateApply(p, 0))
        \/ Direct(UpdateStore(p, FALSE))
        \/ Free(p) /\ Direct(DeleteBegin(p, acme, FALSE))
        \/ Direct(DeleteNamespace(p, FALSE))
        \/ Direct(DeleteStore(p, FALSE))
        \/ Direct(Return(p))

SpecConc == Init /\ [][NextConc]_vars

\* One request at a time for one tenant, with Updates that change nothing,
\* the configuration or the limits, and with an Apply that can stop after
\* its second document.
NextReapply ==
    Step(1, CreateRequestsReapply, UpdateRequestsReapply, {acme}, BOOLEAN, {0, 3})

SpecReapply == Init /\ [][NextReapply]_vars

\* The applier on its own: any stream, with any one patch refused.  A call
\* starts in a free slot only, so the streams are drawn when the slot is free.
NextApply ==
    \/ \E manifests \in (IF pc[1] = "idle" THEN Streams ELSE {}) :
            \E failAt \in 0..Len(parseYAMLDocuments(manifests)) :
                Direct(ApplierApply(1, manifests, failAt))
    \/ Direct(ApplierDeleteNamespace(1, TenantNamespace))
    \/ Direct(Return(1))

SpecApply == Init /\ [][NextApply]_vars

\* Two changes to one tenant that touch different fields: its display name,
\* and the memory of its agent.
UpdateRequestsRace ==
    {UpdateRequest(acme, "ACME Corporation", NilMap, NilMap, NilMap, NilResources),
     UpdateRequest(acme, "", NilMap, NilMap, NilMap, OnlyMemory)}

\* Creates and Updates of one tenant that overlap, none of whose calls
\* fails for a reason outside the requests themselves.
NextLost ==
    \E p \in Procs :
        \/ Free(p) /\ Direct(CreateBegin(p, CreateAcme, FALSE, FALSE))
        \/ Direct(CreateApply(p, 0))
        \/ Direct(CreateStore(p, FALSE))
        \/ \E k8sFail \in BOOLEAN : Direct(CreateCleanup(p, k8sFail))
        \/ Direct(CreateFlip(p, FALSE))
        \/ Free(p) /\ \E r \in UpdateRequestsRace : Direct(UpdateBegin(p, r, FALSE, FALSE))
        \/ Direct(UpdateApply(p, 0))
        \/ Direct(UpdateStore(p, FALSE))
        \/ Direct(Return(p))

SpecLost == Init /\ [][NextLost]_vars

\* Creates of one tenant that overlap, and nothing else: no Delete takes a
\* record out of the store.
NextCreates ==
    \E p \in Procs :
        \/ Free(p) /\ Direct(CreateBegin(p, CreateAcme, FALSE, FALSE))
        \/ \E failAt \in {0, 2} : Direct(CreateApply(p, failAt))
        \/ \E dbFail \in BOOLEAN : Direct(CreateStore(p, dbFail))
        \/ \E k8sFail \in BOOLEAN : Direct(CreateCleanup(p, k8sFail))
        \/ \E dbFail \in BOOLEAN : Direct(CreateFlip(p, dbFail))
        \/ Direct(Return(p))

SpecCreates == Init /\ [][NextCreates]_vars

\* Creates that overlap, of the same tenant or of two, where nothing fails
\* but the insert of an ID the store already has.
NextDuplicate ==
    \E p \in Procs :
        \/ Free(p) /\ \E id \in ValidIDs :
                Direct(CreateBegin(p, CreateRequest(id, "ACME", NilMap, NilMap,
                                                    NilMap, NilResources),
                                   FALSE, FALSE))
        \/ Direct(CreateApply(p, 0))
        \/ Direct(CreateStore(p, FALSE))
        \/ Direct(CreateCleanup(p, FALSE))
        \/ Direct(CreateFlip(p, FALSE))
        \/ Direct(Return(p))

SpecDuplicate == Init /\ [][NextDuplicate]_vars

\* Updates and Deletes of one tenant that overlap, after a Create in which
\* nothing is made to fail.
NextOrphan ==
    \E p \in Procs :
        \/ Free(p) /\ Direct(CreateBegin(p, CreateAcme, FALSE, FALSE))
        \/ Direct(CreateApply(p, 0))
        \/ Direct(CreateStore(p, FALSE))
        \/ Direct(CreateCleanup(p, FALSE))
        \/ Direct(CreateFlip(p, FALSE))
        \/ Free(p) /\ \E r \in UpdateRequests : Direct(UpdateBegin(p, r, FALSE, FALSE))
        \/ Direct(UpdateApply(p, 0))
        \/ Direct(UpdateStore(p, FALSE))
        \/ Free(p) /\ Direct(DeleteBegin(p, acme, FALSE))
        \/ Direct(DeleteNamespace(p, FALSE))
        \/ Direct(DeleteStore(p, FALSE))
        \/ Direct(Return(p))

SpecOrphan == Init /\ [][NextOrphan]_vars

\* No other slot is serving a request.
Alone(p) == \A q \in Procs \ {p} : pc[q] = "idle"

\* Updates of one tenant that overlap each other and nothing else: the
\* Create runs while no other request is served, and nothing is made to
\* fail.
NextUpdates ==
    \E p \in Procs :
        \/ Free(p) /\ Alone(p) /\ Direct(CreateBegin(p, CreateAcme, FALSE, FALSE))
        \/ Alone(p) /\ Direct(CreateApply(p, 0))
        \/ Alone(p) /\ Direct(CreateStore(p, FALSE))
        \/ Alone(p) /\ Direct(CreateFlip(p, FALSE))
        \/ Free(p) /\ \E r \in UpdateRequestsRace : Direct(UpdateBegin(p, r, FALSE, FALSE))
        \/ Direct(UpdateApply(p, 0))
        \/ Direct(UpdateStore(p, FALSE))
        \/ Direct(Return(p))

SpecUpdates == Init /\ [][NextUpdates]_vars

\* Requests of one tenant that overlap, with no Delete among them: Creates
\* whose write of "active" may fail, and the calls that read or rewrite the
\* record afterwards.
NextStuck ==
    \E p \in Procs :
        \/ Free(p) /\ Direct(CreateBegin(p, CreateAcme, FALSE, FALSE))
        \/ Direct(CreateApply(p, 0))
        \/ Direct(CreateStore(p, FALSE))
        \/ \E k8sFail \in BOOLEAN : Direct(CreateCleanup(p, k8sFail))
        \/ \E dbFail \in BOOLEAN : Direct(CreateFlip(p, dbFail))
        \/ Free(p) /\ \E r \in UpdateRequests : Direct(UpdateBegin(p, r, FALSE, FALSE))
        \/ Direct(UpdateApply(p, 0))
        \/ Direct(UpdateStore(p, FALSE))
        \/ Free(p) /\ Direct(Get(p, acme, FALSE))
        \/ Free(p) /\ Direct(List(p, FALSE))
        \/ Free(p) /\ Direct(RestartBegin(p, acme, FALSE))
        \/ Direct(RestartAgent(p, FALSE))
        \/ Direct(RestartGateway(p, FALSE))
        \/ Direct(Return(p))

SpecStuck == Init /\ [][NextStuck]_vars

\* Values of the Authorization header: none, the configured key as a Bearer
\* token, and near misses of it.
Bearer(key) == BearerPrefix \o key

Headers ==
    {<<>>,
     Bearer(APIKey),
     Bearer(<<"b", "a", "d">>),
     Bearer(APIKey \o <<"x">>),
     Bearer(SubSeq(APIKey, 1, 2)),
     Bearer(<<>>),
     Bearer(<<" ">> \o APIKey),
     APIKey,
     <<"B", "e", "a", "r", "e", "r">> \o APIKey,
     <<"b", "e", "a", "r", "e", "r", " ">> \o APIKey,
     <<"B", "a", "s", "i", "c", " ">> \o APIKey}

\* Requests over HTTP, one at a time: any header, a body that decodes or
\* does not, and every failure of the store and the cluster.
NextHTTP ==
    \/ \E auth \in Headers : Routed(1, "health", auth, "none", FALSE)
    \/ \E auth \in Headers, r \in CreateRequests, body \in {"ok", "invalid"},
          dbFail \in BOOLEAN :
            Routed(1, "create", auth, body, CreateBegin(1, r, dbFail, FALSE))
    \/ \E auth \in Headers, dbFail \in BOOLEAN :
            Routed(1, "list", auth, "none", List(1, dbFail))
    \/ \E auth \in Headers, dbFail \in BOOLEAN :
            Routed(1, "get", auth, "none", Get(1, acme, dbFail))
    \/ \E auth \in Headers, r \in UpdateRequests, body \in {"ok", "invalid"},
          dbFail \in BOOLEAN :
            Routed(1, "update", auth, body, UpdateBegin(1, r, dbFail, FALSE))
    \/ \E auth \in Headers, dbFail \in BOOLEAN :
            Routed(1, "delete", auth, "none", DeleteBegin(1, acme, dbFail))
    \/ \E auth \in Headers, dbFail \in BOOLEAN :
            Routed(1, "restart", auth, "none", RestartBegin(1, acme, dbFail))
    \/ Handle(1, \E failAt \in {0, 2} : CreateApply(1, failAt))
    \/ Handle(1, \E dbFail \in BOOLEAN : CreateStore(1, dbFail))
    \/ Handle(1, \E k8sFail \in BOOLEAN : CreateCleanup(1, k8sFail))
    \/ Handle(1, \E dbFail \in BOOLEAN : CreateFlip(1, dbFail))
    \/ Handle(1, \E failAt \in {0, 2} : UpdateApply(1, failAt))
    \/ Handle(1, \E dbFail \in BOOLEAN : UpdateStore(1, dbFail))
    \/ Handle(1, \E k8sFail \in BOOLEAN : DeleteNamespace(1, k8sFail))
    \/ Handle(1, \E dbFail \in BOOLEAN : DeleteStore(1, dbFail))
    \/ Handle(1, \E k8sFail \in BOOLEAN : RestartAgent(1, k8sFail))
    \/ Handle(1, \E k8sFail \in BOOLEAN : RestartGateway(1, k8sFail))
    \/ Answered(1)

SpecHTTP == Init /\ [][NextHTTP]_vars


(***************************************************************************)
(* Properties                                                              *)
(***************************************************************************)
UpperCase ==
    {"A","B","C","D","E","F","G","H","I","J","K","L","M","N","O","P","Q","R",
     "S","T","U","V","W","X","Y","Z"}

\* An ID the grammar of tenant IDs rejects: empty, longer than 53, with an
\* uppercase letter or an underscore, or with a hyphen at either end.
BadTenantID(id) ==
    \/ Len(id) = 0
    \/ Len(id) > 53
    \/ \E i \in 1..Len(id) : id[i] \in UpperCase \cup {"_"}
    \/ id[1] = "-"
    \/ id[Len(id)] = "-"

\* A DNS label of at most 53 characters.
GoodTenantID(id) ==
    /\ Len(id) \in 1..53
    /\ \A i \in 1..Len(id) : id[i] \in LowerAlnum \cup {"-"}
    /\ id[1] # "-"
    /\ id[Len(id)] # "-"

ValidationErrors ==
    {ErrTenantIDRequired, ErrTenantIDTooLong, ErrTenantIDNotDNS, ErrDisplayNameRequired}

IsCreate(p) == req[p].op = "Create"

\* Slot p has just begun request kind op: this step is the handler's first.
Begins(p, op) == pc[p] = "idle" /\ pc'[p] # "idle" /\ req'[p].op = op

CallNames(log) == {log[i].call : i \in 1..Len(log)}

StoreWrites == {"store.Create", "store.Update", "store.Delete"}
ClusterCalls == {"Apply", "DeleteNamespace", "RestartDeployment"}

\* Some call of the log named name returned ret.
Returned(log, name, ret) ==
    \E i \in 1..Len(log) : log[i].call = name /\ log[i].ret = ret

\* C1: a Create whose tenant ID is empty, too long or outside the grammar,
\* or whose display name is empty, returns a validation error and no tenant,
\* calls neither the store nor the cluster, and its step leaves both as they
\* were.
C1_InvalidCreateRejected ==
    /\ [](\A p \in Procs :
            (pc[p] = "done" /\ IsCreate(p)
                /\ (BadTenantID(req[p].TenantID) \/ req[p].DisplayName = ""))
            => /\ result[p].err \in ValidationErrors
               /\ result[p].tenant = NoTenant
               /\ calls[p] = <<>>)
    /\ [][\A p \in Procs :
            (Begins(p, "Create")
                /\ (BadTenantID(req'[p].TenantID) \/ req'[p].DisplayName = ""))
            => pc'[p] = "done" /\ store' = store /\ cluster' = cluster]_vars

\* C1 witness: a Create with a 54-character ID of lowercase letters has
\* been turned down as too long.
C1_Witness ==
    \E p \in Procs :
        /\ pc[p] = "done" /\ IsCreate(p)
        /\ Len(req[p].TenantID) = 54
        /\ GoodTenantID(SubSeq(req[p].TenantID, 1, 53))
        /\ result[p].err = ErrTenantIDTooLong

\* No call of the log failed, and every store.Get found no row.
CleanRun(log) ==
    \A i \in 1..Len(log) :
        /\ log[i].ret # "error"
        /\ log[i].call = "store.Get" => log[i].ret = "no rows"

\* C2: a Create with a valid ID and a display name, no record of that ID
\* and no failing call returns the tenant with namespace
\* "picoclaw-tenant-" + ID and status "active", and the store then has a
\* record of that ID.
C2_CreateSucceeds ==
    \A p \in Procs :
        (pc[p] = "done" /\ IsCreate(p)
            /\ GoodTenantID(req[p].TenantID) /\ req[p].DisplayName # ""
            /\ CleanRun(calls[p]))
        => /\ result[p].err = Nil
           /\ result[p].tenant # NoTenant
           /\ result[p].tenant.ID = req[p].TenantID
           /\ result[p].tenant.Namespace = NamespacePrefix \o req[p].TenantID
           /\ result[p].tenant.Status = "active"
           /\ req[p].TenantID \in DOMAIN store
           /\ store[req[p].TenantID].namespace = NamespacePrefix \o req[p].TenantID

\* C2 witness: the Create of the 53-character ID has succeeded.
C2_Witness ==
    \E p \in Procs :
        /\ pc[p] = "done" /\ IsCreate(p)
        /\ Len(req[p].TenantID) = 53
        /\ CleanRun(calls[p])
        /\ result[p].err = Nil
        /\ result[p].tenant.Status = "active"

\* C3: a Create for an ID that has a record, whose lookup does not fail,
\* returns the conflict error after store.Get alone (no render, no Apply),
\* and its step leaves the store and the cluster as they were.
C3_SecondCreateConflicts ==
    [][\A p \in Procs :
        (Begins(p, "Create")
            /\ GoodTenantID(req'[p].TenantID) /\ req'[p].DisplayName # ""
            /\ req'[p].TenantID \in DOMAIN store
            /\ ~Returned(calls'[p], "store.Get", "error"))
        => /\ pc'[p] = "done"
           /\ result'[p].err = ErrAlreadyExists
           /\ CallNames(calls'[p]) = {"store.Get"}
           /\ store' = store
           /\ cluster' = cluster]_vars

\* C3 witness: a Create was answered with the conflict error while the
\* record of an earlier Create is in the store with status "active".
C3_Witness ==
    \E p \in Procs :
        /\ pc[p] = "done" /\ IsCreate(p)
        /\ result[p].err = ErrAlreadyExists
        /\ store[req[p].TenantID].status = "active"

\* C4: when the Apply of a Create fails, Create returns the apply error, the
\* step leaves the store as it was, and the handler has made no store write.
C4_ApplyFailureNotPersisted ==
    /\ [](\A p \in Procs :
            (pc[p] = "done" /\ IsCreate(p) /\ Returned(calls[p], "Apply", "error"))
            => /\ result[p].err = ErrApply
               /\ result[p].tenant = NoTenant
               /\ CallNames(calls[p]) \cap StoreWrites = {})
    /\ [][\A p \in Procs :
            (pc[p] = "create_apply" /\ Returned(calls'[p], "Apply", "error"))
            => pc'[p] = "done" /\ store' = store]_vars

\* C4 witness: a Create ended with the apply error after the cluster had
\* taken some of its documents.
C4_Witness ==
    \E p \in Procs :
        /\ pc[p] = "done" /\ IsCreate(p)
        /\ result[p].err = ErrApply
        /\ req[p].TenantID \notin DOMAIN store
        /\ NamespacePrefix \o req[p].TenantID \in DOMAIN cluster

\* C5: when the insert of a Create fails, Create makes exactly one more
\* call, DeleteNamespace of the tenant's namespace, and returns the store
\* error whatever that call returns; it never calls store.Update.
C5_InsertFailureCleansUp ==
    \A p \in Procs :
        (pc[p] = "done" /\ IsCreate(p) /\ Returned(calls[p], "store.Create", "error"))
        => /\ result[p].err = ErrStoreTenant
           /\ result[p].tenant = NoTenant
           /\ Len(calls[p]) = 5
           /\ calls[p][3].call = "Apply" /\ calls[p][3].ret = "ok"
           /\ calls[p][4].call = "store.Create"
           /\ calls[p][5].call = "DeleteNamespace"
           /\ calls[p][5].key = NamespacePrefix \o req[p].TenantID
           /\ "store.Update" \notin CallNames(calls[p])

\* C5 witness: the insert failed and so did the DeleteNamespace after it.
C5_Witness ==
    \E p \in Procs :
        /\ pc[p] = "done" /\ IsCreate(p)
        /\ Returned(calls[p], "store.Create", "error")
        /\ Returned(calls[p], "DeleteNamespace", "error")
        /\ result[p].err = ErrStoreTenant


\* Slot p makes the call named name in this step, and it returns ret.
Calls(p, name, ret) ==
    /\ Len(calls'[p]) = Len(calls[p]) + 1
    /\ calls'[p][Len(calls'[p])].call = name
    /\ calls'[p][Len(calls'[p])].ret = ret

\* The last call slot p has made is name, and it returned ret.
LastCall(p, name, ret) ==
    /\ Len(calls[p]) > 0
    /\ calls[p][Len(calls[p])].call = name
    /\ calls[p][Len(calls[p])].ret = ret

\* C6: the stored statuses are "provisioning" and "active" alone; a record
\* enters the store as "provisioning", by the insert of a Create whose Apply
\* has just succeeded; and a record turns "active" by the store.Update of a
\* Create whose Apply and insert succeeded, or of an Update.
C6_ActiveOnlyAfterApplyAndInsert ==
    /\ [](\A id \in DOMAIN store : store[id].status \in {"provisioning", "active"})
    /\ [][\A id \in DOMAIN store' :
            /\ id \notin DOMAIN store
               => /\ store'[id].status = "provisioning"
                  /\ \E p \in Procs :
                        /\ IsCreate(p) /\ req[p].TenantID = id
                        /\ LastCall(p, "Apply", "ok")
                        /\ Calls(p, "store.Create", "ok")
            /\ (id \in DOMAIN store /\ store[id].status # "active"
                    /\ store'[id].status = "active")
               => \E p \in Procs :
                        /\ req[p].op \in {"Create", "Update"}
                        /\ req[p].TenantID = id
                        /\ Calls(p, "store.Update", "ok")
                        /\ \/ req[p].op = "Update"
                           \/ /\ IsCreate(p)
                              /\ Returned(calls[p], "Apply", "ok")
                              /\ LastCall(p, "store.Create", "ok")]_vars

\* C6 witness: a record is "active" while a second Create for its ID, whose
\* Apply succeeded, has had its insert refused.
C6_Witness ==
    \E p \in Procs :
        /\ pc[p] = "create_cleanup"
        /\ req[p].TenantID \in DOMAIN store
        /\ store[req[p].TenantID].status = "active"

\* C7: the status of a record that stays in the store never goes from
\* "active" to anything else.
C7_StatusNeverRegresses ==
    [][\A id \in DOMAIN store \cap DOMAIN store' :
        store[id].status = "active" => store'[id].status = "active"]_vars


\* The five limits of a Tenant and of a stored row, in the order agent CPU,
\* agent memory, gateway CPU, gateway memory, workspace size.
TenantLimits(tn) ==
    <<tn.Resources.AgentCPU, tn.Resources.AgentMemory, tn.Resources.GatewayCPU,
      tn.Resources.GatewayMemory, tn.Resources.WorkspaceSize>>

RowLimits(row) ==
    <<row.resources.agent_cpu, row.resources.agent_memory, row.resources.gateway_cpu,
      row.resources.gateway_memory, row.resources.workspace_size>>

OverrideLimits(o) ==
    <<o.AgentCPU, o.AgentMemory, o.GatewayCPU, o.GatewayMemory, o.WorkspaceSize>>

DefaultLimits == <<"500m", "1Gi", "250m", "512Mi", "500Mi">>

\* Field by field: the override's value where it is not empty, else the
\* base's; the base when there is no override.
FieldWise(base, o) ==
    IF o = NilResources THEN base
    ELSE [i \in 1..5 |-> IF OverrideLimits(o)[i] # "" THEN OverrideLimits(o)[i]
                         ELSE base[i]]

\* C8: the limits of the Tenant that Create renders are the request's
\* override laid field-wise over the defaults, those of the Tenant that
\* Update renders are the override laid field-wise over the stored limits,
\* and a successful Create returns and stores the former.
C8_MergeFieldWise ==
    \A p \in Procs :
        /\ pc[p] = "create_apply"
           => TenantLimits(t[p]) = FieldWise(DefaultLimits, req[p].Resources)
        /\ pc[p] = "update_apply"
           => TenantLimits(t[p]) =
                FieldWise(RowLimits(store[req[p].TenantID]), req[p].Resources)
        /\ (pc[p] = "done" /\ IsCreate(p) /\ result[p].err = Nil)
           => /\ TenantLimits(result[p].tenant)
                    = FieldWise(DefaultLimits, req[p].Resources)
              /\ RowLimits(store[req[p].TenantID])
                    = FieldWise(DefaultLimits, req[p].Resources)

\* C8 witness: an Update whose override has the agent memory alone is about
\* to apply, over stored limits none of which is a default.
C8_Witness ==
    \E p \in Procs :
        /\ pc[p] = "update_apply"
        /\ req[p].Resources # NilResources
        /\ OverrideLimits(req[p].Resources) = <<"", "2Gi", "", "", "">>
        /\ \A i \in 1..5 : RowLimits(store[req[p].TenantID])[i] # DefaultLimits[i]
        /\ TenantLimits(t[p])[2] = "2Gi"

\* C9: every Tenant a handler holds (those it renders among them) and every
\* stored row has five non-empty limits.
C9_LimitsAlwaysPopulated ==
    /\ \A p \in Procs :
            t[p] # NoTenant => \A i \in 1..5 : TenantLimits(t[p])[i] # ""
    /\ \A id \in DOMAIN store : \A i \in 1..5 : RowLimits(store[id])[i] # ""

\* C9 witness: a Create whose override is empty in four fields has stored
\* its record and an Update with an all-empty override is about to apply.
C9_Witness ==
    \E p \in Procs :
        /\ pc[p] = "update_apply"
        /\ req[p].Resources # NilResources
        /\ OverrideLimits(req[p].Resources) = <<"", "", "", "", "">>
        /\ RowLimits(store[req[p].TenantID])[2] = "2Gi"
        /\ RowLimits(store[req[p].TenantID])[1] = "500m"

\* An Update request with a display name and nothing else.
DisplayNameOnly(r) ==
    /\ r.op = "Update"
    /\ r.DisplayName # ""
    /\ r.Providers = NilMap /\ r.Agents = NilMap /\ r.Channels = NilMap
    /\ r.Resources = NilResources

\* C10: an Update with a display name alone renders a Tenant with the
\* stored limits and the stored configuration text, and when it succeeds
\* the tenant it returns and the row it leaves have the limits and the
\* configuration text the row had before, with the new display name.
C10_DisplayNameOnlyUpdate ==
    [][\A p \in Procs :
        DisplayNameOnly(req'[p])
        => LET id == req'[p].TenantID IN
           /\ (Begins(p, "Update") /\ pc'[p] = "update_apply")
              => /\ t'[p].ConfigJSON = store[id].config_json
                 /\ TenantLimits(t'[p]) = RowLimits(store[id])
           /\ (pc[p] = "update_store" /\ result'[p].err = Nil)
              => /\ result'[p].tenant.ConfigJSON = store[id].config_json
                 /\ TenantLimits(result'[p].tenant) = RowLimits(store[id])
                 /\ result'[p].tenant.DisplayName = req'[p].DisplayName
                 /\ store'[id].config_json = store[id].config_json
                 /\ store'[id].resources = store[id].resources
                 /\ store'[id].display_name = req'[p].DisplayName]_vars

\* C10 witness: an Update with a display name alone has succeeded on a
\* tenant that has providers configured and a non-default agent memory.
C10_Witness ==
    \E p \in Procs :
        /\ pc[p] = "done" /\ DisplayNameOnly(req[p]) /\ result[p].err = Nil
        /\ "providers" \in DOMAIN result[p].tenant.ConfigJSON.doc
        /\ result[p].tenant.Resources.AgentMemory = "2Gi"
        /\ store[req[p].TenantID].display_name = req[p].DisplayName

\* The keys of the configuration document a request can supply.
ConfigKeys == {"providers", "agents", "channels"}

\* What request r supplies for key k (NilMap: nothing).
Supplied(r, k) ==
    CASE k = "providers" -> r.Providers
      [] k = "agents" -> r.Agents
      [] k = "channels" -> r.Channels

SuppliedKeys(r) == {k \in ConfigKeys : Supplied(r, k) # NilMap}

\* Document new is document old with each key that r supplies set to the
\* supplied value, whole, and every other key as it was.
Replaced(old, new, r) ==
    /\ DOMAIN new = DOMAIN old \cup SuppliedKeys(r)
    /\ \A k \in DOMAIN new :
          new[k] = IF k \in SuppliedKeys(r) THEN Supplied(r, k) ELSE old[k]

\* C11: the configuration document an Update renders, and the one it
\* returns and stores when it succeeds, is the stored document with each
\* supplied key among providers/agents/channels set to exactly the supplied
\* value and every other top-level key, gateway included, unchanged.
C11_SuppliedKeysReplaced ==
    [][\A p \in Procs :
        req'[p].op = "Update"
        => LET id == req'[p].TenantID IN
           /\ (Begins(p, "Update") /\ pc'[p] = "update_apply")
              => Replaced(store[id].config_json.doc, t'[p].ConfigJSON.doc, req'[p])
           /\ (pc[p] = "update_store" /\ result'[p].err = Nil)
              => /\ Replaced(store[id].config_json.doc,
                             store'[id].config_json.doc, req'[p])
                 /\ Replaced(store[id].config_json.doc,
                             result'[p].tenant.ConfigJSON.doc, req'[p])]_vars

\* C11 witness: an Update supplying providers alone has succeeded on a
\* tenant created with providers and agents: the providers are the
\* supplied ones, without the base_url the earlier value had, and the
\* agents are the created ones.
C11_Witness ==
    \E p \in Procs :
        /\ pc[p] = "done" /\ req[p].op = "Update" /\ result[p].err = Nil
        /\ req[p].Providers = P2 /\ req[p].Agents = NilMap
        /\ {"providers", "agents"} \subseteq DOMAIN store[req[p].TenantID].config_json.doc
        /\ store[req[p].TenantID].config_json.doc["providers"] = P2
        /\ store[req[p].TenantID].config_json.doc["agents"] = A1

\* C12: an Update, a Delete or a Restart for an ID that has no record,
\* whose lookup does not fail, returns the not-found error after store.Get
\* alone: no Apply, no DeleteNamespace, no restart patch and no store write,
\* and its step leaves the store and the cluster as they were.
C12_MissingTenantNotFound ==
    [][\A p \in Procs :
        (/\ \/ Begins(p, "Update") \/ Begins(p, "Delete") \/ Begins(p, "Restart")
         /\ req'[p].TenantID \notin DOMAIN store
         /\ ~Returned(calls'[p], "store.Get", "error"))
        => /\ pc'[p] = "done"
           /\ result'[p].err = ErrNotFound
           /\ result'[p].tenant = NoTenant
           /\ CallNames(calls'[p]) = {"store.Get"}
           /\ store' = store
           /\ cluster' = cluster]_vars

\* C12 witness: a Delete was answered with the not-found error while the
\* cluster still has the namespace of that ID, left by a Create that failed.
C12_Witness ==
    \E p \in Procs :
        /\ pc[p] = "done" /\ req[p].op = "Delete"
        /\ result[p].err = ErrNotFound
        /\ req[p].TenantID \notin DOMAIN store
        /\ NamespacePrefix \o req[p].TenantID \in DOMAIN cluster

\* C13: when the DeleteNamespace of a Delete fails, Delete returns the
\* namespace-deletion error without calling store.Delete, the step leaves
\* the store as it was, and Get and List still return the tenant as Delete
\* read it.
C13_NamespaceFailureKeepsRecord ==
    /\ [](\A p \in Procs :
            (pc[p] = "done" /\ req[p].op = "Delete"
                /\ Returned(calls[p], "DeleteNamespace", "error"))
            => /\ result[p].err = ErrDeleteNamespace
               /\ CallNames(calls[p]) = {"store.Get", "DeleteNamespace"}
               /\ Len(calls[p]) = 2)
    /\ [][\A p \in Procs :
            (pc[p] = "delete_namespace" /\ Calls(p, "DeleteNamespace", "error"))
            => /\ pc'[p] = "done"
               /\ store' = store
               /\ storeGet(store', req[p].TenantID) = t[p]
               /\ t[p] \in storeList(store')]_vars

\* C13 witness: a Delete of an active tenant ended with the
\* namespace-deletion error; the namespace and the record are both there.
C13_Witness ==
    \E p \in Procs :
        /\ pc[p] = "done" /\ req[p].op = "Delete"
        /\ result[p].err = ErrDeleteNamespace
        /\ req[p].TenantID \in DOMAIN store
        /\ store[req[p].TenantID].status = "active"
        /\ NamespacePrefix \o req[p].TenantID \in DOMAIN cluster

\* C14: a Delete calls store.Delete only right after its DeleteNamespace
\* succeeded, so a record leaves the store only when its namespace is gone;
\* when store.Delete fails, Delete returns the store's error, the step
\* changes neither the cluster (the namespace stays deleted) nor the store,
\* and the record is still there.
C14_NamespaceBeforeRecord ==
    /\ [](\A p \in Procs :
            req[p].op = "Delete"
            => /\ \A j \in 1..Len(calls[p]) :
                    calls[p][j].call = "store.Delete"
                    => /\ j > 1
                       /\ calls[p][j - 1].call = "DeleteNamespace"
                       /\ calls[p][j - 1].ret = "ok"
                       /\ calls[p][j - 1].key = t[p].Namespace
               /\ (pc[p] = "done" /\ Returned(calls[p], "store.Delete", "error"))
                  => result[p].err = ErrStoreDelete)
    /\ [][/\ \A id \in DOMAIN store \ DOMAIN store' :
                /\ store[id].namespace \notin DOMAIN cluster
                /\ \E p \in Procs :
                      /\ req[p].op = "Delete" /\ req[p].TenantID = id
                      /\ LastCall(p, "DeleteNamespace", "ok")
                      /\ Calls(p, "store.Delete", "ok")
          /\ \A p \in Procs :
                (pc[p] = "delete_store" /\ Calls(p, "store.Delete", "error"))
                => /\ pc'[p] = "done"
                   /\ cluster' = cluster
                   /\ t[p].Namespace \notin DOMAIN cluster'
                   /\ store' = store
                   /\ req[p].TenantID \in DOMAIN store']_vars

\* C14 witness: a Delete ended with the store's error: the namespace is
\* gone and the record is still there.
C14_Witness ==
    \E p \in Procs :
        /\ pc[p] = "done" /\ req[p].op = "Delete"
        /\ result[p].err = ErrStoreDelete
        /\ req[p].TenantID \in DOMAIN store
        /\ NamespacePrefix \o req[p].TenantID \notin DOMAIN cluster

\* Entry e of a call record is the restart patch of deployment name in
\* namespace ns.
IsRestart(e, ns, name) ==
    e.call = "RestartDeployment" /\ e.key = ns /\ e.name = name

\* C15: a Restart that found its tenant patches "picoclaw-agent" and then
\* "picoclaw-gateway", both in the tenant's namespace, and makes no other
\* call after store.Get; when the agent's patch fails it is the last call
\* and Restart returns the agent error; when the gateway's patch fails
\* Restart returns the gateway error with nothing called after it; and no
\* step of a Restart changes the store.
C15_RestartAgentThenGateway ==
    /\ [](\A p \in Procs :
            (pc[p] = "done" /\ req[p].op = "Restart"
                /\ calls[p][1].ret = "ok")
            => LET ns == NamespacePrefix \o req[p].TenantID IN
               /\ Len(calls[p]) \in {2, 3}
               /\ CallNames(calls[p]) \cap StoreWrites = {}
               /\ IsRestart(calls[p][2], ns, "picoclaw-agent")
               /\ calls[p][2].ret = "error"
                  => Len(calls[p]) = 2 /\ result[p].err = ErrRestartAgent
               /\ calls[p][2].ret = "ok"
                  => /\ Len(calls[p]) = 3
                     /\ IsRestart(calls[p][3], ns, "picoclaw-gateway")
                     /\ calls[p][3].ret = "error" => result[p].err = ErrRestartGateway
                     /\ calls[p][3].ret = "ok" => result[p].err = Nil)
    /\ [][\A p \in Procs :
            (req'[p].op = "Restart" /\ calls'[p] # calls[p]) => store' = store]_vars

\* C15 witness: a Restart whose agent patch went through ended with the
\* gateway error.
C15_Witness ==
    \E p \in Procs :
        /\ pc[p] = "done" /\ req[p].op = "Restart"
        /\ Len(calls[p]) = 3
        /\ calls[p][2].ret = "ok" /\ calls[p][2].name = "picoclaw-agent"
        /\ calls[p][3].ret = "error" /\ calls[p][3].name = "picoclaw-gateway"
        /\ result[p].err = ErrRestartGateway

\* Slot p has returned from a call of the applier's Apply.
ApplyDone(p) == pc[p] = "done" /\ req[p].op = "Apply"

\* The patches that Apply sent, and the number of them that were accepted.
Sent(p) == calls[p][1].sent
Accepted(p) == calls[p][1].accepted

\* The documents of a stream that declare a kind, in stream order.
WithKind(stream) == SelectSeq(stream, LAMBDA d : d.kind # "")

\* C16: when Apply succeeds on a stream, the number of patches it sent is
\* the number of documents of the stream whose kind is not empty; and no
\* Apply, successful or not, sends a patch for an empty document, a bare
\* separator or a document without a kind.
C16_PatchesEqualKindedDocuments ==
    \A p \in Procs :
        ApplyDone(p)
        => /\ result[p].err = Nil
              => Len(Sent(p)) =
                    Cardinality({i \in 1..Len(req[p].manifests) :
                                    req[p].manifests[i].kind # ""})
           /\ \A j \in 1..Len(Sent(p)) :
                /\ Sent(p)[j].kind # ""
                /\ Sent(p)[j] \notin {EmptyDocument, BareSeparator}

\* C16 witness: Apply has succeeded on a stream of three documents of
\* which one is blank and one has no kind: one patch was sent.
C16_Witness ==
    \E p \in Procs :
        /\ ApplyDone(p) /\ result[p].err = Nil
        /\ Len(req[p].manifests) = 3
        /\ \E i, j \in 1..3 :
              /\ IsBlank(req[p].manifests[i])
              /\ req[p].manifests[j].kind = "" /\ ~IsBlank(req[p].manifests[j])
        /\ Len(Sent(p)) = 1

\* C17: the patches one Apply sends are the documents of the stream that
\* declare a kind, in stream order, up to the one it stops at: all of them
\* when it succeeds; the accepted ones and the refused one, once, when a
\* patch is refused; the accepted ones when a mapping fails.  For a stream
\* of the renderer every patch of a namespaced object comes after the patch
\* of its Namespace.
C17_PatchesInStreamOrder ==
    \A p \in Procs :
        ApplyDone(p)
        => /\ Len(Sent(p)) <= Len(WithKind(req[p].manifests))
           /\ Sent(p) = SubSeq(WithKind(req[p].manifests), 1, Len(Sent(p)))
           /\ result[p].err = Nil => Sent(p) = WithKind(req[p].manifests)
           /\ Len(Sent(p)) = Accepted(p) + (IF result[p].err = ErrPatch THEN 1 ELSE 0)
           /\ req[p].manifests \in RenderedStreams
              => /\ result[p].err = Nil => Len(Sent(p)) = Len(templateNames)
                 /\ \A j \in 1..Len(Sent(p)) :
                        Sent(p)[j].kind # "Namespace"
                        => \E i \in 1..(j - 1) :
                              /\ Sent(p)[i].kind = "Namespace"
                              /\ Sent(p)[i].body.Namespace = Sent(p)[j].namespace

\* C17 witness: Apply has succeeded on a stream whose Namespace document
\* comes after a ConfigMap of that namespace: the ConfigMap was patched
\* first.
C17_Witness ==
    \E p \in Procs :
        /\ ApplyDone(p) /\ result[p].err = Nil
        /\ Len(Sent(p)) = 3
        /\ Sent(p)[1].kind = "ConfigMap"
        /\ Sent(p)[2].kind = "Namespace"
        /\ Sent(p)[3].kind = "ConfigMap" /\ Sent(p)[3].body # Sent(p)[1].body

\* The object a document is about: its namespace (for a Namespace, the one
\* it names), its kind and its name.
Identity(d) ==
    <<IF d.kind = "Namespace" THEN d.body.Namespace ELSE d.namespace, d.kind, d.name>>

Absent == [absent |-> TRUE]

\* What cluster cl holds for the object of document d.
Lookup(cl, d) ==
    LET ns == Identity(d)[1]
    IN  IF ns \notin DOMAIN cl THEN Absent
        ELSE IF d.kind = "Namespace" THEN cl[ns].self
        ELSE IF <<d.kind, d.name>> \in DOMAIN cl[ns].objects
             THEN cl[ns].objects[<<d.kind, d.name>>]
        ELSE Absent

\* C18: when Apply fails at the k-th document that declares a kind (its
\* mapping is not found, or its patch is refused), it returns the error at
\* once: the patches sent are those of documents 1..k-1, and that of k when
\* it was the patch that failed; the objects of documents 1..k-1 are in the
\* cluster as the last of those documents about them says; and every object
\* that only document k or a later one is about is as it was before.
C18_FailureStopsApply ==
    [][\A p \in Procs :
        (Begins(p, "Apply") /\ result'[p].err # Nil)
        => LET docs == WithKind(req'[p].manifests)
               sent == calls'[p][1].sent
               k == calls'[p][1].accepted + 1
           IN  /\ pc'[p] = "done"
               /\ result'[p].err \in {ErrMapping, ErrPatch}
               /\ k \in 1..Len(docs)
               /\ sent = SubSeq(docs, 1, IF result'[p].err = ErrPatch THEN k ELSE k - 1)
               /\ result'[p].err = ErrMapping => docs[k].kind \notin ServedKinds
               /\ \A i \in 1..(k - 1) :
                    \E j \in i..(k - 1) :
                        /\ Identity(docs[j]) = Identity(docs[i])
                        /\ \A m \in (j + 1)..(k - 1) : Identity(docs[m]) # Identity(docs[i])
                        /\ Lookup(cluster', docs[i]) = docs[j].body
               /\ \A j \in k..Len(docs) :
                    (\A i \in 1..(k - 1) : Identity(docs[i]) # Identity(docs[j]))
                    => Lookup(cluster', docs[j]) = Lookup(cluster, docs[j])]_vars

\* C18 witness: Apply has failed at the third document of a stream, an
\* object of a kind that is not served, after creating the namespace and a
\* ConfigMap in it, which the cluster holds.
C18_Witness ==
    \E p \in Procs :
        /\ ApplyDone(p) /\ result[p].err = ErrMapping
        /\ Len(req[p].manifests) = 3 /\ Accepted(p) = 2
        /\ Sent(p)[1].kind = "Namespace" /\ Sent(p)[2].kind = "ConfigMap"
        /\ Lookup(cluster, Sent(p)[2]) = Sent(p)[2].body

\* Slot p is at the Apply of a Create or an Update, and this step is that
\* Apply, succeeding.
ApplyStep(p) ==
    pc[p] \in {"create_apply", "update_apply"} /\ Calls(p, "Apply", "ok")

\* The stream slot p applies.
Rendered(p) == RenderAll(ToVars(t[p]))

\* Cluster cl holds every object of the stream as its document says.
Holds(cl, manifests) ==
    \A i \in 1..Len(manifests) : Lookup(cl, manifests[i]) = manifests[i].body

\* The objects of the stream are all in cluster cl, whatever they hold.
Exist(cl, manifests) ==
    \A i \in 1..Len(manifests) : Lookup(cl, manifests[i]) # Absent

\* After a successful Apply of a Create or an Update, applying the same
\* stream again succeeds and changes nothing, and the objects of the stream
\* are what its documents say, the same as when the stream is applied to a
\* cluster that has none of them.
ApplyConverges(p) ==
    ApplyStep(p)
    => /\ Apply(cluster', Rendered(p), 0).ok
       /\ Apply(cluster', Rendered(p), 0).cluster = cluster'
       /\ Holds(cluster', Rendered(p))
       /\ \A i \in 1..Len(Rendered(p)) :
            Lookup(cluster', Rendered(p)[i])
                = Lookup(Apply(NoNamespaces, Rendered(p), 0).cluster, Rendered(p)[i])

\* The Update in slot p changes nothing: the Tenant it renders is the
\* stored one.
ChangesNothing(p) ==
    /\ pc[p] = "update_apply"
    /\ req[p].TenantID \in DOMAIN store
    /\ t[p] = storeGet(store, req[p].TenantID)

HasGateway(doc) ==
    /\ "gateway" \in DOMAIN doc
    /\ doc["gateway"] = [host |-> "0.0.0.0", port |-> 18790]

\* Document doc is a freshly built one for request r: the gateway block and
\* the keys r supplies, each with the supplied value, and no other key.
FreshDocument(doc, r) ==
    /\ HasGateway(doc)
    /\ DOMAIN doc = {"gateway"} \cup SuppliedKeys(r)
    /\ \A k \in SuppliedKeys(r) : doc[k] = Supplied(r, k)

\* C20: the configuration document of every stored row and of every Tenant
\* a handler holds has the gateway block with host "0.0.0.0" and port
\* 18790; the document Create builds, returns and stores has, besides it,
\* the keys among providers/agents/channels that the request supplies and
\* no other.
C20_GatewayBlockAlwaysPresent ==
    /\ \A id \in DOMAIN store : HasGateway(store[id].config_json.doc)
    /\ \A p \in Procs :
          /\ t[p] # NoTenant => HasGateway(t[p].ConfigJSON.doc)
          /\ (IsCreate(p) /\ t[p] # NoTenant)
             => FreshDocument(t[p].ConfigJSON.doc, req[p])
          /\ (IsCreate(p) /\ pc[p] = "done" /\ result[p].err = Nil)
             => /\ FreshDocument(result[p].tenant.ConfigJSON.doc, req[p])
                /\ FreshDocument(store[req[p].TenantID].config_json.doc, req[p])

\* C20 witness: a Create supplying providers and agents and no channels has
\* succeeded: the stored document has the gateway block, providers and
\* agents, and no channels key.
C20_Witness ==
    \E p \in Procs :
        /\ IsCreate(p) /\ pc[p] = "done" /\ result[p].err = Nil
        /\ req[p].Providers = P1 /\ req[p].Channels = NilMap
        /\ HasGateway(store[req[p].TenantID].config_json.doc)
        /\ DOMAIN store[req[p].TenantID].config_json.doc
                = {"gateway", "providers", "agents"}

\* Slot p is an Update that has returned success.
UpdateSucceeded(p) ==
    pc[p] = "done" /\ req[p].op = "Update" /\ result[p].err = Nil

\* C21: the store write of an Update succeeds whenever the record is there,
\* whatever another Update has written since this one read it: the Update
\* returns success, and the record's display name, configuration and
\* resources become those of the writer's own copy, so what the other wrote
\* in between is gone without an error.
C21_LaterWriterOverwrites ==
    [][\A p \in Procs :
        (pc[p] = "update_store" /\ pc'[p] # "update_store"
            /\ t[p].ID \in DOMAIN store)
        => /\ Calls(p, "store.Update", "ok")
           /\ pc'[p] = "done"
           /\ result'[p].err = Nil
           /\ result'[p].tenant = t[p]
           /\ store'[t[p].ID].display_name = t[p].DisplayName
           /\ store'[t[p].ID].config_json = ToJSONB(t[p].ConfigJSON)
           /\ store'[t[p].ID].resources = MarshalResources(t[p].Resources)]_vars

\* C21 witness: an Update of the display name and an Update of the agent's
\* memory have both returned success, the first was told the new name is
\* stored, and the record has the new memory under the old name.
C21_Witness ==
    \E p, q \in Procs :
        /\ p # q /\ UpdateSucceeded(p) /\ UpdateSucceeded(q)
        /\ req[p].DisplayName = "ACME Corporation"
        /\ result[p].tenant.DisplayName = "ACME Corporation"
        /\ req[q].Resources = OnlyMemory
        /\ acme \in DOMAIN store
        /\ store[acme].display_name = "ACME"
        /\ store[acme].resources = MarshalResources(result[q].tenant.Resources)
        /\ result[q].tenant.Resources # DefaultResources

\* C22: the existence check of a Create looks at the store alone: a valid
\* Create that begins while no record has its ID passes the check and goes
\* on to Apply, also while another Create of the same ID is between its own
\* check and its insert; and the step after the check is an Apply for the
\* namespace of the ID.
C22_BothCreatesPassTheCheck ==
    [][\A p \in Procs :
        /\ (Begins(p, "Create")
                /\ GoodTenantID(req'[p].TenantID) /\ req'[p].DisplayName # ""
                /\ req'[p].TenantID \notin DOMAIN store)
           => /\ pc'[p] = "create_apply"
              /\ calls'[p][1].call = "store.Get"
              /\ calls'[p][1].ret = "no rows"
        /\ (pc[p] = "create_apply" /\ pc'[p] # "create_apply")
           => /\ calls'[p][Len(calls'[p])].call = "Apply"
              /\ calls'[p][Len(calls'[p])].key = NamespacePrefix \o req[p].TenantID]_vars

\* C22 witness: two Creates of "acme" have each found no record and each
\* had an Apply for the namespace accepted, and no record is written yet.
C22_Witness ==
    \E p, q \in Procs :
        /\ p # q
        /\ pc[p] = "create_store" /\ pc[q] = "create_store"
        /\ req[p].TenantID = acme /\ req[q].TenantID = acme
        /\ LastCall(p, "Apply", "ok") /\ LastCall(q, "Apply", "ok")
        /\ calls[p][Len(calls[p])].key = calls[q][Len(calls[q])].key
        /\ Returned(calls[p], "store.Get", "no rows")
        /\ Returned(calls[q], "store.Get", "no rows")
        /\ acme \notin DOMAIN store

\* Some Apply of the log had at least one of its documents accepted.
AppliedSome(log) ==
    \E i \in 1..Len(log) : log[i].call = "Apply" /\ log[i].accepted > 0

\* C23: a Create that returns an error after the cluster accepted some of
\* the tenant's resources leaves no namespace of that tenant in the cluster.
C23_FailedCreateLeavesNoResources ==
    \A p \in Procs :
        (pc[p] = "done" /\ IsCreate(p) /\ result[p].err # Nil
            /\ AppliedSome(calls[p]))
        => NamespacePrefix \o req[p].TenantID \notin DOMAIN cluster

\* The header is "Bearer " and then something.
HasBearer(auth) == Len(auth) >= 7 /\ SubSeq(auth, 1, 7) = BearerPrefix

\* The exchange of slot p is on a route under /api/v1.
OnAPI(p) == http[p].route \notin {"none", "health"}

\* The service has been called for slot p.
Invoked(p) == req[p] # NoReq \/ calls[p] # <<>> \/ t[p] # NoTenant

\* The cluster and database failures the service reports.
InfrastructureErrors ==
    {ErrCheckExisting, ErrRender, ErrApply, ErrStoreTenant, ErrStoreGet,
     ErrStoreList, ErrStoreUpdate, ErrDeleteNamespace, ErrStoreDelete,
     ErrRestartAgent, ErrRestartGateway}

\* C24: the status of an answered request that passed authentication is 400
\* when the body does not decode or validation fails, 404 when the tenant of
\* a Get, Update, Delete or Restart does not exist, and 500 only when the
\* cluster or the database failed.
C24_StatusReflectsErrorClass ==
    \A p \in Procs :
        (pc[p] = "done" /\ OnAPI(p)
            /\ http[p].status \notin {StatusUnauthorized, StatusForbidden})
        => /\ (http[p].body = "invalid" \/ result[p].err \in ValidationErrors)
              => http[p].status = StatusBadRequest
           /\ (\/ result[p].err = ErrNotFound
               \/ /\ req[p].op = "Get" /\ result[p].err = Nil
                  /\ result[p].tenant = NoTenant)
              => http[p].status = StatusNotFound
           /\ http[p].status = StatusInternalServerError
              => result[p].err \in InfrastructureErrors

\* C25: on a route under /api/v1 the tenant service is called only when the
\* Authorization header is exactly "Bearer " followed by the configured key;
\* with no header, or one that does not begin with "Bearer ", the answer is
\* 401, and with another key it is 403, the store and the cluster left as
\* they were; /health is answered 200 whatever the header, without a call
\* of the service.
C25_ServiceBehindBearerKey ==
    /\ [](\A p \in Procs :
            /\ (OnAPI(p) /\ Invoked(p)) => http[p].auth = BearerPrefix \o APIKey
            /\ (OnAPI(p) /\ ~HasBearer(http[p].auth))
               => pc[p] = "done" /\ http[p].status = StatusUnauthorized /\ ~Invoked(p)
            /\ (OnAPI(p) /\ HasBearer(http[p].auth)
                    /\ http[p].auth # BearerPrefix \o APIKey)
               => pc[p] = "done" /\ http[p].status = StatusForbidden /\ ~Invoked(p)
            /\ http[p].route = "health"
               => pc[p] = "done" /\ http[p].status = StatusOK /\ ~Invoked(p))
    /\ [][\A p \in Procs :
            (http[p].route = "none" /\ http'[p].route # "none"
                /\ http'[p].auth # BearerPrefix \o APIKey)
            => store' = store /\ cluster' = cluster]_vars

\* C25 witness: a Create with a valid body whose key is the configured one
\* and one more character has been answered 403, the service not called,
\* while no tenant is stored.
C25_Witness ==
    \E p \in Procs :
        /\ pc[p] = "done" /\ http[p].route = "create" /\ http[p].body = "ok"
        /\ http[p].auth = BearerPrefix \o APIKey \o <<"x">>
        /\ http[p].status = StatusForbidden
        /\ ~Invoked(p)
        /\ store = NoRows

\* The record of id is "provisioning", no Create is about to write "active",
\* and no Update under way holds a copy that says "active".
Stuck(id) ==
    /\ id \in DOMAIN store
    /\ store[id].status = "provisioning"
    /\ \A p \in Procs :
        /\ pc[p] # "create_flip"
        /\ pc[p] \in {"update_apply", "update_store"} => t[p].Status # "active"

\* C26: when the write of "active" fails after Apply and the insert
\* succeeded, Create still returns success with a tenant whose status is
\* "active", and the step changes neither the store, whose record stays
\* "provisioning", nor the cluster; and from then on, with requests of Get,
\* List, Update, Restart (and further Creates) in any interleaving, the
\* stored status stays "provisioning".
C26_FailedFlipStaysProvisioning ==
    /\ [][\A p \in Procs :
            (pc[p] = "create_flip" /\ Calls(p, "store.Update", "error"))
            => /\ Returned(calls[p], "Apply", "ok")
               /\ Returned(calls[p], "store.Create", "ok")
               /\ pc'[p] = "done"
               /\ result'[p].err = Nil
               /\ result'[p].tenant.Status = "active"
               /\ store' = store /\ cluster' = cluster
               /\ Stuck(req[p].TenantID)']_vars
    /\ [][\A id \in DOMAIN store : Stuck(id) => Stuck(id)']_vars

\* C26 witness: a Create whose write of "active" failed has returned an
\* "active" tenant, an Update of the display name has succeeded after it,
\* and the record is "provisioning" with the tenant's namespace in the
\* cluster.
C26_Witness ==
    \E p, q \in Procs :
        /\ pc[p] = "done" /\ IsCreate(p)
        /\ LastCall(p, "store.Update", "error")
        /\ result[p].err = Nil /\ result[p].tenant.Status = "active"
        /\ UpdateSucceeded(q)
        /\ result[q].tenant.Status = "provisioning"
        /\ store[acme].display_name = "ACME Corporation"
        /\ Stuck(acme)
        /\ store[acme].namespace \in DOMAIN cluster

\* Slot p, serving an Update, takes a step.
UpdateSteps(p) ==
    \/ Begins(p, "Update")
    \/ /\ req[p].op = "Update"
       /\ pc[p] \in {"update_apply", "update_store"}
       /\ pc'[p] # pc[p]

\* C27: with one request at a time, no step of an Update other than its
\* successful store write changes the store, so when an Update returns an
\* error (from the lookup, the render, Apply or the store write) the record
\* is what it was before the call; and when the store write fails, Update
\* returns the store's error, the step leaves the cluster holding the
\* manifests just applied, and the write is the Update's last call: its one
\* Apply is not repeated and nothing is deleted.
C27_FailedUpdateKeepsRecord ==
    /\ [][\A p \in Procs :
            /\ (UpdateSteps(p) /\ ~Calls(p, "store.Update", "ok"))
               => store' = store
            /\ (pc[p] = "update_store" /\ Calls(p, "store.Update", "error"))
               => /\ pc'[p] = "done"
                  /\ result'[p].err = ErrStoreUpdate
                  /\ LastCall(p, "Apply", "ok")
                  /\ cluster' = cluster
                  /\ Holds(cluster', Rendered(p))]_vars
    /\ [](\A p \in Procs :
            (pc[p] = "done" /\ req[p].op = "Update" /\ result[p].err # Nil)
            => /\ ~Returned(calls[p], "store.Update", "ok")
               /\ result[p].tenant = NoTenant
               /\ Returned(calls[p], "store.Update", "error")
                  => /\ LastCall(p, "store.Update", "error")
                     /\ Len(SelectSeq(calls[p], LAMBDA c : c.call = "Apply")) = 1
                     /\ "DeleteNamespace" \notin CallNames(calls[p]))

\* C27 witness: an Update that sets all five limits has failed at its store
\* write: the record has the limits it had, and the cluster holds the render
\* of the new ones.
C27_Witness ==
    \E p \in Procs :
        /\ pc[p] = "done" /\ req[p].op = "Update"
        /\ req[p].Resources = AllFive
        /\ result[p].err = ErrStoreUpdate
        /\ acme \in DOMAIN store
        /\ store[acme].resources # MarshalResources(t[p].Resources)
        /\ Holds(cluster, Rendered(p))
        /\ ~Holds(cluster, RenderAll(ToVars(storeGet(store, acme))))

\* C28: every record is stored under its own ID with the namespace
\* "picoclaw-tenant-" + ID, and no two records share an ID or a namespace;
\* and the store write of an Update leaves the record's id, namespace and
\* status as they were.
C28_RecordIdentityFixed ==
    /\ [](\A id \in DOMAIN store :
            /\ store[id].id = id
            /\ store[id].namespace = NamespacePrefix \o store[id].id
            /\ \A other \in DOMAIN store \ {id} :
                  store[other].namespace # store[id].namespace)
    /\ [][\A p \in Procs :
            (req[p].op = "Update" /\ Calls(p, "store.Update", "ok"))
            => /\ store'[t[p].ID].id = store[t[p].ID].id
               /\ store'[t[p].ID].namespace = store[t[p].ID].namespace
               /\ store'[t[p].ID].status = store[t[p].ID].status]_vars

\* C29: the namespace "picoclaw-tenant-" + ID of every tenant ID that
\* validateTenantID accepts has at most 63 characters, the longest name a
\* namespace may have.
C29_NamespaceFitsLabel ==
    \A p \in Procs :
        (IsCreate(p) /\ validateTenantID(req[p].TenantID) = Nil)
        => /\ Len(NamespacePrefix \o req[p].TenantID) <= 63
           /\ t[p] # NoTenant => Len(t[p].Namespace) <= 63

\* Slot p is a Create of id that has inserted its record: it is about to
\* write "active", or it has returned success.
CreateWon(p, id) ==
    /\ IsCreate(p) /\ req[p].TenantID = id
    /\ \/ pc[p] = "create_flip"
       \/ pc[p] = "done" /\ result[p].err = Nil

\* C30: among Creates of one ID that overlap in any way, at most one has
\* its insert accepted and returns success: a Create returns success only
\* after its own insert succeeded, an insert succeeds only when the store
\* has no record of the ID, and no record leaves the store; and the store
\* has at most one record of an ID, kept under that ID.
C30_OneCreateWins ==
    /\ [](/\ \A p, q \in Procs :
                (CreateWon(p, req[p].TenantID) /\ CreateWon(q, req[p].TenantID))
                => p = q
          /\ \A p \in Procs :
                (pc[p] = "done" /\ IsCreate(p) /\ result[p].err = Nil)
                => /\ Returned(calls[p], "store.Create", "ok")
                   /\ req[p].TenantID \in DOMAIN store
          /\ \A id \in DOMAIN store : store[id].id = id)
    /\ [][/\ \A p \in Procs :
                Calls(p, "store.Create", "ok")
                => /\ req[p].TenantID \notin DOMAIN store
                   /\ req[p].TenantID \in DOMAIN store'
          /\ DOMAIN store \subseteq DOMAIN store']_vars

\* C30 witness: two Creates of "acme" both found no record and both had
\* their Apply accepted; one has returned the tenant, the other the store's
\* error, and the store has the record.
C30_Witness ==
    \E p, q \in Procs :
        /\ pc[p] = "done" /\ pc[q] = "done" /\ IsCreate(p) /\ IsCreate(q)
        /\ req[p].TenantID = acme /\ req[q].TenantID = acme
        /\ Returned(calls[p], "store.Get", "no rows")
        /\ Returned(calls[q], "store.Get", "no rows")
        /\ Returned(calls[p], "Apply", "ok") /\ Returned(calls[q], "Apply", "ok")
        /\ result[p].err = Nil /\ result[p].tenant.Status = "active"
        /\ result[q].err = ErrStoreTenant
        /\ Returned(calls[q], "store.Create", "error")
        /\ acme \in DOMAIN store

\* No request is under way.
AllCompleted == \A p \in Procs : pc[p] \in {"idle", "done"}

\* C31: once the overlapping Creates have all completed, the namespace of
\* every record in the store is in the cluster.
C31_RecordImpliesNamespace ==
    AllCompleted
    => \A id \in DOMAIN store : store[id].namespace \in DOMAIN cluster

\* C32: when a Delete of a tenant has returned success, an Update of it has
\* completed, and the store has no record of it (no Create came after the
\* Delete), the cluster has no namespace of the tenant.
C32_UpdateNeverRecreatesNamespace ==
    \A p, q \in Procs :
        (/\ pc[p] = "done" /\ req[p].op = "Delete" /\ result[p].err = Nil
         /\ pc[q] = "done" /\ req[q].op = "Update"
         /\ req[q].TenantID = req[p].TenantID
         /\ req[p].TenantID \notin DOMAIN store)
        => NamespacePrefix \o req[p].TenantID \notin DOMAIN cluster

\* C33: a Delete of a tenant that has a record and no namespace left (an
\* earlier Delete removed the namespace and failed at the record), with no
\* call of the store failing, returns success and removes the record.
C33_DeleteRetryCompletes ==
    \A p \in Procs :
        (/\ pc[p] = "done" /\ req[p].op = "Delete"
         /\ Returned(calls[p], "store.Get", "ok")
         /\ \A i \in 1..Len(calls[p]) :
                calls[p][i].call \in {"store.Get", "store.Delete"}
                => calls[p][i].ret = "ok"
         /\ NamespacePrefix \o req[p].TenantID \notin DOMAIN cluster)
        => /\ result[p].err = Nil
           /\ req[p].TenantID \notin DOMAIN store

\* What the cluster holds of a tenant's configuration and limits: those of
\* the render last applied to its ConfigMap.
AppliedTo(cl, ns) == cl[ns].objects[<<"ConfigMap", "picoclaw-config">>]

\* C34: once overlapping Updates of a tenant have all completed, each with
\* success, the configuration and the resource limits last applied to the
\* cluster are those of the tenant's record.
C34_ClusterMatchesRecord ==
    (/\ AllCompleted
     /\ \E p \in Procs : UpdateSucceeded(p)
     /\ \A p \in Procs : (pc[p] = "done" /\ req[p].op = "Update") => result[p].err = Nil)
    => \A id \in DOMAIN store :
          (/\ store[id].namespace \in DOMAIN cluster
           /\ <<"ConfigMap", "picoclaw-config">>
                \in DOMAIN cluster[store[id].namespace].objects)
          => /\ AppliedTo(cluster, store[id].namespace).ConfigJSON.doc
                    = store[id].config_json.doc
             /\ MarshalResources(AppliedTo(cluster, store[id].namespace).Resources)
                    = store[id].resources

====
